---- MODULE Spec2Model ----
(***************************************************************************)
(* A model of go-http-client: the retry stage (retryTransport) built by    *)
(* NewClient, its exponential backoff loop (cenkalti/backoff/v5 v5.0.3,    *)
(* backoff.Retry with an ExponentialBackOff), Retry-After parsing and the   *)
(* construction-time validation of the retry settings.                      *)
(*                                                                          *)
(* Durations are integers in milliseconds.  A multiplier is a rational      *)
(* [num, den]; time.Duration(float64(d) * m) truncates, so it is            *)
(* (d * num) \div den.                                                      *)
(***************************************************************************)
EXTENDS Integers, Sequences, FiniteSets, TLC

VARIABLES
    pc,           \* "new" | "rejected" | "ready" | "attempt" | "wait" | "done"
    clientTimeout,\* the timeout given to NewClient
    settings,     \* the RetrySettings given to WithRetries
    t,            \* the retryTransport built by newRetryTransport
    req,          \* the request given to RoundTrip: [Method, Body]
    origBody,     \* the caller's body reader: [data, pos, reads, closed]
    bodyBytes,    \* RoundTrip's bodyBytes: [isNil, bytes]
    bo,           \* the ExponentialBackOff: [currentInterval]
    numTries,     \* backoff.Retry's loop counter
    next,         \* the duration the timer was started with
    timerFired,   \* the timer's channel holds a value
    cancelled,    \* req.Context() is done
    elapsed,      \* time since the last transport attempt returned
    sent,         \* what the next transport received, one entry per call
    lastOutcome,  \* what the next transport returned in this pass of Retry's loop: [resp, err]
    lastDrain,    \* how draining and closing that response went, when op discarded it
    priorErrs,    \* every attempt before this pass failed at the transport level
    step,         \* the interval the last NextBackOff drew its value from
    waits,        \* timers started by this call
    clientErr,    \* the error NewClient returned ("" when it returned a client)
    result,       \* what RoundTrip returned: [resp, err]
    client,       \* the *HTTPClient NewClient returned: [nil, Timeout, retries]
    clock,        \* time since http.Client started the call (followed under TimeoutSpec)
    headerSettings, \* the HeaderSettings of the headerTransport
    hdrReq,       \* the request given to headerTransport.RoundTrip: [Header, ctx]
    hdrClone,     \* reqClone, the request the header stage passes on: [Header]
    hdrPc,        \* "off" | "new" | "ready" | "called" | "done"
    breaker,      \* the gobreaker.CircuitBreaker behind the key
    shouldTripSet,\* the status codes the key's ShouldTrip accepts
    cbPc,         \* "off" | "new" | "ready": whether newCircuitBreakers has run
    cbRuns,       \* how many times ExecuteWithBreaker invoked fn
    cbResult,     \* per caller, its ExecuteWithBreaker call and what it returned
    cbSettings,   \* cfg.circuitBreakerSettings: key -> CircuitBreakerSettings
    breakers,     \* HTTPClient.breakers: key -> [name, trips, cb]
    regPc,        \* "off" | "new" | "ready": whether the registry is built
    regCall,      \* the last call on the registry and how it ended
    regRuns,      \* how many times a call on the registry invoked fn
    peer,         \* the breakers of a second HTTPClient: key -> [name, trips, cb]
    parseNow,     \* time.Now() as parseRetryAfter's calls see it
    parseCalls,   \* the calls of parseRetryAfter made so far: [header, now, out]
    chain,        \* the stages of the client's transport, outermost first
    received      \* the Header of each request that reached the base transport

vars == <<pc, clientTimeout, settings, t, req, origBody, bodyBytes, bo, numTries,
          next, timerFired, cancelled, elapsed, sent, lastOutcome, lastDrain,
          priorErrs, step, waits, clientErr, result, client, clock,
          headerSettings, hdrReq, hdrClone, hdrPc,
          breaker, shouldTripSet, cbPc, cbRuns, cbResult,
          cbSettings, breakers, regPc, regCall, regRuns, peer, parseNow,
          parseCalls, chain, received>>

headerVars == <<headerSettings, hdrReq, hdrClone, hdrPc>>
breakerVars == <<breaker, shouldTripSet, cbPc, cbRuns, cbResult>>
registryVars == <<cbSettings, breakers, regPc, regCall, regRuns, peer>>
parseVars == <<parseNow, parseCalls>>
chainVars == <<chain, received>>
auxVars == <<registryVars, parseVars, chainVars>>
otherVars == <<clock, headerVars, breakerVars, auxVars>>
retryVars == <<pc, clientTimeout, settings, t, req, origBody, bodyBytes, bo, numTries,
               next, timerFired, cancelled, elapsed, sent, lastOutcome, lastDrain,
               priorErrs, step, waits, clientErr, result, client>>

(***************************************************************************)
(* Bounds of the model.                                                    *)
(***************************************************************************)
MaxRetriesIn == 1       \* settings.MaxRetries is drawn from -1..MaxRetriesIn
MaxBodyLen == 1         \* request bodies hold at most this many bytes
RandomSteps == 4        \* rand.Float64() is drawn from {0, (RandomSteps-1)/RandomSteps}

(***************************************************************************)
(* Program constants.                                                      *)
(***************************************************************************)
DefaultMaxRetries == 3
DefaultInitialInterval == 500
DefaultMaxInterval == 60000
DefaultMultiplier == [num |-> 3, den |-> 2]
MaxRetryAfterSeconds == 300
StatusTooManyRequests == 429
StatusServiceUnavailable == 503
defaultRetriableStatusCodes == {429, 502, 503, 504}

Second == 1000
MaxRetryAfter == 5 * 60 * Second

(***************************************************************************)
(* Values.                                                                 *)
(***************************************************************************)
ZeroMultiplier == [num |-> 0, den |-> 1]
NilCodes == [isNil |-> TRUE, codes |-> {}]
Codes(S) == [isNil |-> FALSE, codes |-> S]

\* A Retry-After header value: text (a sequence of characters) or an HTTP date,
\* the date given by its distance from the moment it is parsed.
TextHeader(chars) == [form |-> "text", chars |-> chars, delta |-> 0]
DateHeader(delta) == [form |-> "date", chars |-> <<>>, delta |-> delta]
NoHeader == TextHeader(<<>>)

NilResp == [nil |-> TRUE, status |-> 0, retryAfter |-> NoHeader]
Resp(status, h) == [nil |-> FALSE, status |-> status, retryAfter |-> h]
NoError == ""
Outcome(resp, err) == [resp |-> resp, err |-> err]
NoOutcome == Outcome(NilResp, NoError)

NilBytes == [isNil |-> TRUE, bytes |-> <<>>]
Bytes(b) == [isNil |-> FALSE, bytes |-> b]

(***************************************************************************)
(* RetrySettings.applyDefaults, newRetryTransport, isIdempotent,           *)
(* shouldRetry.                                                            *)
(***************************************************************************)
\* applyDefaults that takes MaxRetries as it is given.
applyDefaultsKeepsZero(rs) ==
    [MaxRetries |-> rs.MaxRetries,
     InitialInterval |-> IF rs.InitialInterval = 0 THEN DefaultInitialInterval
                         ELSE rs.InitialInterval,
     MaxInterval |-> IF rs.MaxInterval = 0 THEN DefaultMaxInterval ELSE rs.MaxInterval,
     Multiplier |-> IF rs.Multiplier.num = 0 THEN DefaultMultiplier ELSE rs.Multiplier,
     RetriableStatusCodes |-> IF rs.RetriableStatusCodes.isNil
                              THEN Codes(defaultRetriableStatusCodes)
                              ELSE rs.RetriableStatusCodes]

\* applyDefaults that fills in MaxInterval only when InitialInterval is unset too.
applyDefaultsTogether(rs) ==
    [MaxRetries |-> IF rs.MaxRetries = 0 THEN DefaultMaxRetries ELSE rs.MaxRetries,
     InitialInterval |-> IF rs.InitialInterval = 0 THEN DefaultInitialInterval
                         ELSE rs.InitialInterval,
     MaxInterval |-> IF rs.MaxInterval = 0 /\ rs.InitialInterval = 0
                     THEN DefaultMaxInterval ELSE rs.MaxInterval,
     Multiplier |-> IF rs.Multiplier.num = 0 THEN DefaultMultiplier ELSE rs.Multiplier,
     RetriableStatusCodes |-> IF rs.RetriableStatusCodes.isNil
                              THEN Codes(defaultRetriableStatusCodes)
                              ELSE rs.RetriableStatusCodes]

applyDefaults(rs) ==
    [MaxRetries |-> IF rs.MaxRetries = 0 THEN DefaultMaxRetries ELSE rs.MaxRetries,
     InitialInterval |-> IF rs.InitialInterval = 0 THEN DefaultInitialInterval
                         ELSE rs.InitialInterval,
     MaxInterval |-> IF rs.MaxInterval = 0 THEN DefaultMaxInterval ELSE rs.MaxInterval,
     Multiplier |-> IF rs.Multiplier.num = 0 THEN DefaultMultiplier ELSE rs.Multiplier,
     RetriableStatusCodes |-> IF rs.RetriableStatusCodes.isNil
                              THEN Codes(defaultRetriableStatusCodes)
                              ELSE rs.RetriableStatusCodes]

newRetryTransport(rs) ==
    LET s == applyDefaults(rs) IN
    [maxRetries |-> s.MaxRetries,
     initialInterval |-> s.InitialInterval,
     maxInterval |-> s.MaxInterval,
     multiplier |-> s.Multiplier,
     retriableStatusCodes |-> s.RetriableStatusCodes.codes]

NoTransport == newRetryTransport([MaxRetries |-> 0, InitialInterval |-> 0, MaxInterval |-> 0,
                                  Multiplier |-> ZeroMultiplier,
                                  RetriableStatusCodes |-> NilCodes])

\* isIdempotent with PATCH listed among the idempotent methods.
isIdempotentPatch(method) ==
    method \in {"GET", "HEAD", "OPTIONS", "TRACE", "PUT", "DELETE", "PATCH"}

isIdempotent(method) ==
    CASE method \in {"GET", "HEAD", "OPTIONS", "TRACE", "PUT", "DELETE"} -> TRUE
      [] method \in {"POST", "PATCH"} -> FALSE
      [] OTHER -> FALSE

\* shouldRetry that also retries every 5xx status.
shouldRetryServerErrors(tr, statusCode) ==
    statusCode \in tr.retriableStatusCodes \/ statusCode >= 500

shouldRetry(tr, statusCode) == statusCode \in tr.retriableStatusCodes

(***************************************************************************)
(* parseRetryAfter.  strconv.ParseInt(header, 10, 64) accepts an optional  *)
(* sign followed by one or more decimal digits; http.ParseTime accepts an  *)
(* HTTP date.                                                              *)
(***************************************************************************)
Digits == <<"0", "1", "2", "3", "4", "5", "6", "7", "8", "9">>
IsDigit(c) == \E i \in 1..10 : Digits[i] = c
DigitVal(c) == (CHOOSE i \in 1..10 : Digits[i] = c) - 1

RECURSIVE DigitsValue(_)
DigitsValue(chars) ==
    IF chars = <<>> THEN 0
    ELSE 10 * DigitsValue(SubSeq(chars, 1, Len(chars) - 1)) + DigitVal(chars[Len(chars)])

ParseInt(chars) ==
    LET signed == chars # <<>> /\ chars[1] \in {"+", "-"}
        digits == IF signed THEN Tail(chars) ELSE chars
        ok == digits # <<>> /\ \A i \in 1..Len(digits) : IsDigit(digits[i])
    IN [ok |-> ok,
        value |-> IF ~ok THEN 0
                  ELSE IF signed /\ chars[1] = "-" THEN 0 - DigitsValue(digits)
                  ELSE DigitsValue(digits)]

ParseTime(header) == [ok |-> header.form = "date", until |-> header.delta]

\* parseRetryAfter without the upper limit on the seconds.
parseRetryAfterNoLimit(header) ==
    IF header.form = "text" /\ header.chars = <<>> THEN 0
    ELSE LET int == ParseInt(header.chars) IN
         IF header.form = "text" /\ int.ok
         THEN IF int.value > 0 THEN int.value * Second ELSE 0
         ELSE LET tm == ParseTime(header) IN
              IF tm.ok /\ tm.until > 0 /\ tm.until <= MaxRetryAfter
              THEN tm.until
              ELSE 0

parseRetryAfter(header) ==
    IF header.form = "text" /\ header.chars = <<>> THEN 0
    ELSE LET int == ParseInt(header.chars) IN
         IF header.form = "text" /\ int.ok
         THEN IF int.value > 0 /\ int.value <= MaxRetryAfterSeconds
              THEN int.value * Second
              ELSE 0
         ELSE LET tm == ParseTime(header) IN
              IF tm.ok /\ tm.until > 0 /\ tm.until <= MaxRetryAfter
              THEN tm.until
              ELSE 0

(***************************************************************************)
(* validateRetrySettings: "" when the settings are accepted, else the       *)
(* error.                                                                  *)
(***************************************************************************)
ScaleDuration(d, m) == (d * m.num) \div m.den

RECURSIVE worstCaseRetryTime(_, _, _)
worstCaseRetryTime(s, n, interval) ==
    IF n <= 0 THEN 0
    ELSE LET capped == IF interval > s.MaxInterval THEN s.MaxInterval ELSE interval
         IN capped + worstCaseRetryTime(s, n - 1, ScaleDuration(capped, s.Multiplier))

\* validateRetrySettings that lets the worst case equal the client timeout.
validateRetrySettingsUpTo(rs, timeout) ==
    LET s == applyDefaults(rs) IN
    IF s.MaxRetries < 0 THEN "max retries must be >= 0"
    ELSE IF s.InitialInterval <= 0 THEN "initial interval must be > 0"
    ELSE IF s.MaxInterval < s.InitialInterval THEN "max interval must be >= initial interval"
    ELSE IF s.Multiplier.num < s.Multiplier.den THEN "multiplier must be >= 1.0"
    ELSE IF worstCaseRetryTime(s, s.MaxRetries, s.InitialInterval) > timeout
         THEN "worst case retry backoff must be less than client timeout"
    ELSE NoError

\* validateRetrySettings without the check of the multiplier.
validateRetrySettingsAnyMultiplier(rs, timeout) ==
    LET s == applyDefaults(rs) IN
    IF s.MaxRetries < 0 THEN "max retries must be >= 0"
    ELSE IF s.InitialInterval <= 0 THEN "initial interval must be > 0"
    ELSE IF s.MaxInterval < s.InitialInterval THEN "max interval must be >= initial interval"
    ELSE IF worstCaseRetryTime(s, s.MaxRetries, s.InitialInterval) >= timeout
         THEN "worst case retry backoff must be less than client timeout"
    ELSE NoError

validateRetrySettings(rs, timeout) ==
    LET s == applyDefaults(rs) IN
    IF s.MaxRetries < 0 THEN "max retries must be >= 0"
    ELSE IF s.InitialInterval <= 0 THEN "initial interval must be > 0"
    ELSE IF s.MaxInterval < s.InitialInterval THEN "max interval must be >= initial interval"
    ELSE IF s.Multiplier.num < s.Multiplier.den THEN "multiplier must be >= 1.0"
    ELSE IF worstCaseRetryTime(s, s.MaxRetries, s.InitialInterval) >= timeout
         THEN "worst case retry backoff must be less than client timeout"
    ELSE NoError

(***************************************************************************)
(* The ExponentialBackOff of backoff/v5 as RoundTrip configures it          *)
(* (InitialInterval, MaxInterval, Multiplier set; RandomizationFactor left  *)
(* at the library's 0.5), and the options given to backoff.Retry.           *)
(***************************************************************************)
RandomValues == {0, RandomSteps - 1}

Reset(tr) == [currentInterval |-> tr.initialInterval]

\* getRandomValueFromInterval(0.5, k/RandomSteps, cur):
\* delta = cur/2, the result is trunc((cur - delta) + random * (2*delta + 1)).
getRandomValueFromInterval(k, cur) ==
    (RandomSteps * cur + 2 * k * (cur + 1)) \div (2 * RandomSteps)

incrementCurrentInterval(tr, b) ==
    IF b.currentInterval * tr.multiplier.num >= tr.maxInterval * tr.multiplier.den
    THEN [currentInterval |-> tr.maxInterval]
    ELSE [currentInterval |-> ScaleDuration(b.currentInterval, tr.multiplier)]

\* NextBackOff: [next, bo]
NextBackOff(tr, b, k) ==
    LET cur == IF b.currentInterval = 0 THEN tr.initialInterval ELSE b.currentInterval
    IN [next |-> getRandomValueFromInterval(k, cur),
        bo |-> incrementCurrentInterval(tr, [currentInterval |-> cur]),
        step |-> cur]

\* WithMaxTries given t.maxRetries without the initial attempt.
MaxTriesNoInitial(tr) == tr.maxRetries

\* backoff.WithMaxTries(uint(t.maxRetries)+1); uint(-1)+1 wraps to 0, which
\* backoff.Retry reads as "no limit".
MaxTries(tr) == IF tr.maxRetries = -1 THEN 0 ELSE tr.maxRetries + 1

(***************************************************************************)
(* Inputs.                                                                 *)
(***************************************************************************)
Timeouts == {0, 10000}

SettingsIn ==
    [MaxRetries : -1..MaxRetriesIn,
     InitialInterval : {-100, 0, 100},
     MaxInterval : {0, 150},
     Multiplier : {ZeroMultiplier, [num |-> 1, den |-> 2]},
     RetriableStatusCodes : {NilCodes, Codes({503})}]

Methods == {"GET", "HEAD", "OPTIONS", "TRACE", "PUT", "DELETE", "POST", "PATCH", "BREW", ""}

BodyData == {[i \in 1..n |-> i] : n \in 1..MaxBodyLen}

\* req.Body: nil, http.NoBody, or a reader over data whose Read or Close may fail.
NilBody == [kind |-> "nil", data |-> <<>>, fail |-> "none"]
NoBody == [kind |-> "NoBody", data |-> <<>>, fail |-> "none"]
Reader(data, fail) == [kind |-> "reader", data |-> data, fail |-> fail]
Bodies == {NilBody, NoBody} \cup {Reader(d, "none") : d \in BodyData}
          \cup {Reader(<<1>>, "read"), Reader(<<1>>, "close")}

TransportError == "connection refused"

RetryAfterHeaders == {NoHeader, TextHeader(<<"1">>), TextHeader(<<"3", "0", "1">>)}

TransportOutcomes ==
    {Outcome(NilResp, TransportError)}
    \cup {Outcome(Resp(s, NoHeader), NoError) : s \in {200, 500, 504}}
    \cup {Outcome(Resp(s, h), NoError) : s \in {429, 503}, h \in RetryAfterHeaders}
    \cup {Outcome(Resp(502, TextHeader(<<"1">>)), NoError)}

DrainOutcomes == {"ok", "copyErr", "closeErr"}

\* A response is drained only when op discards it; rand.Float64() is read
\* only by NextBackOff.
DrainsOf(tr, out) ==
    IF out.err = NoError /\ shouldRetry(tr, out.resp.status) THEN DrainOutcomes ELSE {"none"}

NoRequest == [Method |-> "", Body |-> NilBody]
NoReader == [pos |-> 0, reads |-> 0, closed |-> FALSE]

(***************************************************************************)
(* The header stage: HeaderSettings, http.Header and the request context.  *)
(* A header is a sequence of values per canonical name, <<>> when the name *)
(* is absent; a map of the settings is a function whose DOMAIN is its keys. *)
(***************************************************************************)
HeaderNames == {"X-Api-Key", "X-Request-Id"}

\* The keys HeaderSettings may use, as written in the settings.
HeaderKeys == {"X-API-Key", "x-api-key", "X-Request-ID"}

\* textproto.CanonicalMIMEHeaderKey on those keys.
CanonicalMIMEHeaderKey(k) ==
    CASE k \in {"X-API-Key", "x-api-key"} -> "X-Api-Key"
      [] k = "X-Request-ID" -> "X-Request-Id"
      [] OTHER -> k

\* http.Header.Get: the first value of the canonical key, "" when there is none.
HeaderGet(h, k) ==
    LET vs == h[CanonicalMIMEHeaderKey(k)] IN IF vs = <<>> THEN "" ELSE vs[1]

\* http.Header.Set: the canonical key now holds the single value v.
HeaderSet(h, k, v) == [h EXCEPT ![CanonicalMIMEHeaderKey(k)] = <<v>>]

EmptyHeader == [n \in HeaderNames |-> <<>>]

\* Values a request context may hold for a key: none (Value returns nil), a
\* string, an int, or a nil pointer of some type (which is not a nil `any`).
NilValue == [kind |-> "nil", text |-> ""]
StringValue(str) == [kind |-> "string", text |-> str]
IntValue42 == [kind |-> "int", text |-> "42"]
NilPointer == [kind |-> "pointer", text |-> "<nil>"]

\* fmt.Sprint(value)
Sprint(value) == value.text

ContextKeys == {"requestID", "apiKey"}
ContextValues == {NilValue, StringValue("req-1"), IntValue42, NilPointer}
Contexts == [ContextKeys -> ContextValues]

\* context.Context.Value(key)
ContextValue(ctx, key) == IF key \in DOMAIN ctx THEN ctx[key] ELSE NilValue

NoHeaderSettings == [ContextHeaders |-> <<>>, StaticHeaders |-> <<>>]
NoHeaderRequest == [Header |-> EmptyHeader, ctx |-> [k \in ContextKeys |-> NilValue]]

HeaderUnused ==
    /\ headerSettings = NoHeaderSettings
    /\ hdrReq = NoHeaderRequest
    /\ hdrClone = [Header |-> EmptyHeader, calls |-> 0]
    /\ hdrPc = "off"

(***************************************************************************)
(* The circuit breakers (sony/gobreaker/v2 v2.4.0 behind                    *)
(* HTTPClient.ExecuteWithBreaker).                                          *)
(***************************************************************************)
NoCounts == [Requests |-> 0, TotalSuccesses |-> 0, TotalFailures |-> 0,
             ConsecutiveSuccesses |-> 0, ConsecutiveFailures |-> 0]

NoBreaker == [state |-> "closed", generation |-> 0, counts |-> NoCounts,
              maxRequests |-> 0, tripAfter |-> 0, interval |-> 0]

\* The goroutines that call ExecuteWithBreaker on the key.
Callers == {"a", "b"}

\* A caller that has not called yet.  pc: "idle" | "running" | "returned";
\* generation: what beforeRequest returned, while running; fn: what the
\* operation returned;
\* resp, err: what ExecuteWithBreaker returned; ran: fn was invoked;
\* reported: what afterRequest was told; counted: the breaker took it in.
IdleCall == [pc |-> "idle", generation |-> 0, fn |-> NoOutcome, resp |-> NilResp,
             err |-> NoError, ran |-> FALSE, reported |-> "none", counted |-> FALSE]

BreakerUnused ==
    /\ breaker = NoBreaker
    /\ shouldTripSet = {}
    /\ cbPc = "off"
    /\ cbRuns = 0
    /\ cbResult = [c \in Callers |-> IdleCall]

\* A registry call that was not made.  op: "GetBreaker" | "ShouldTrip" |
\* "ExecuteWithBreaker"; panicked: the call panicked; name: the Name() of the
\* breaker GetBreaker returned; trip: what ShouldTrip returned; resp, err:
\* what ExecuteWithBreaker returned; ran: fn was invoked; on: the client the
\* call was made on, "client" or "peer".
NoRegistryCall == [op |-> "none", key |-> "", code |-> 0, panicked |-> FALSE, name |-> "",
                   trip |-> FALSE, resp |-> NilResp, err |-> NoError, ran |-> FALSE,
                   on |-> "client"]

RegistryUnused ==
    /\ cbSettings = <<>>
    /\ breakers = <<>>
    /\ regPc = "off"
    /\ regCall = NoRegistryCall
    /\ regRuns = 0
    /\ peer = <<>>

ParseUnused ==
    /\ parseNow = 0
    /\ parseCalls = <<>>

ChainUnused ==
    /\ chain = <<>>
    /\ received = <<>>

NilClient == [nil |-> TRUE, Timeout |-> 0, retries |-> FALSE]

(***************************************************************************)
(* NewClient with WithRetries(settings).                                   *)
(***************************************************************************)
RetryUnused ==
    /\ pc = "new"
    /\ clientTimeout = 0
    /\ settings = [MaxRetries |-> 0, InitialInterval |-> 0, MaxInterval |-> 0,
                   Multiplier |-> ZeroMultiplier, RetriableStatusCodes |-> NilCodes]
    /\ t = NoTransport
    /\ req = NoRequest
    /\ origBody = NoReader
    /\ bodyBytes = NilBytes
    /\ bo = [currentInterval |-> 0]
    /\ numTries = 0
    /\ next = 0
    /\ timerFired = FALSE
    /\ cancelled = FALSE
    /\ elapsed = 0
    /\ sent = <<>>
    /\ lastOutcome = NoOutcome
    /\ lastDrain = "none"
    /\ priorErrs = TRUE
    /\ step = 0
    /\ waits = 0
    /\ clientErr = NoError
    /\ result = NoOutcome
    /\ client = NilClient
    /\ clock = 0

Init == RetryUnused /\ HeaderUnused /\ BreakerUnused /\ RegistryUnused /\ ParseUnused
        /\ ChainUnused

callVars == <<req, origBody, bodyBytes, bo, numTries, next, timerFired, cancelled,
              elapsed, sent, lastOutcome, lastDrain, priorErrs, step, waits, result>>

\* NewClient that only refuses a negative timeout.
NewClientErrorZeroTimeout(timeout, withRetries, rs) ==
    IF timeout < 0 THEN "timeout must be greater than 0"
    ELSE IF withRetries THEN validateRetrySettings(rs, timeout)
    ELSE NoError

\* The error NewClient returns; withRetries: WithRetries(rs) is among the options.
NewClientError(timeout, withRetries, rs) ==
    IF timeout <= 0 THEN "timeout must be greater than 0"
    ELSE IF withRetries THEN validateRetrySettings(rs, timeout)
    ELSE NoError

\* NewClient that leaves http.Client.Timeout unset.
HTTPClientNoTimeout(timeout, withRetries) ==
    [nil |-> FALSE, Timeout |-> 0, retries |-> withRetries]

\* &HTTPClient{Client: &http.Client{Transport: transport, Timeout: cfg.timeout}}
HTTPClient(timeout, withRetries) ==
    [nil |-> FALSE, Timeout |-> timeout, retries |-> withRetries]

\* NewClient(timeout, opts...), the options drawn from the given sets.
NewClientFrom(timeouts, retryOptions, settingsIn) ==
    /\ pc = "new"
    /\ \E timeout \in timeouts, withRetries \in retryOptions, rs \in settingsIn :
        /\ clientTimeout' = timeout
        /\ settings' = rs
        /\ clientErr' = NewClientError(timeout, withRetries, rs)
        /\ IF NewClientError(timeout, withRetries, rs) # NoError
           THEN pc' = "rejected" /\ t' = t /\ client' = NilClient
           ELSE /\ pc' = "ready"
                /\ t' = IF withRetries THEN newRetryTransport(rs) ELSE t
                /\ client' = HTTPClient(timeout, withRetries)
    /\ UNCHANGED <<callVars, otherVars>>

NewClient == NewClientFrom(Timeouts, {TRUE}, SettingsIn)

(***************************************************************************)
(* retryTransport.RoundTrip.                                               *)
(***************************************************************************)
\* What a reader of body b, already read up to pos, still yields.
Remaining(b, rd) ==
    IF b.kind = "reader" THEN SubSeq(b.data, rd.pos + 1, Len(b.data)) ELSE <<>>

\* reqClone keeps the caller's reader instead of a fresh one over bodyBytes.
attemptBodyShared(bytes, b, rd) == Remaining(b, rd)

\* The body the next transport reads from reqClone.
attemptBody(bytes, b, rd) ==
    IF ~bytes.isNil THEN bytes.bytes ELSE Remaining(b, rd)

\* readBody that drops the error of io.ReadAll.
readBodyIgnoreError(b, rd) ==
    IF b.kind # "reader" THEN [bytes |-> NilBytes, err |-> NoError]
    ELSE IF b.fail = "close" THEN [bytes |-> Bytes(Remaining(b, rd)), err |-> "close failed"]
    ELSE [bytes |-> Bytes(Remaining(b, rd)), err |-> NoError]

\* io.ReadAll(req.Body) followed by req.Body.Close(): [bytes, err]
readBody(b, rd) ==
    IF b.kind # "reader" THEN [bytes |-> NilBytes, err |-> NoError]
    ELSE IF b.fail = "read" THEN [bytes |-> NilBytes, err |-> "failed to read request body"]
    ELSE IF b.fail = "close" THEN [bytes |-> Bytes(Remaining(b, rd)), err |-> "close failed"]
    ELSE [bytes |-> Bytes(Remaining(b, rd)), err |-> NoError]

Return(resp, err) ==
    /\ pc' = "done"
    /\ result' = IF err # NoError THEN Outcome(NilResp, err) ELSE Outcome(resp, NoError)

\* A non-idempotent method: return t.next.RoundTrip(req).
RoundTripOnce ==
    /\ pc = "ready"
    /\ \E m \in Methods, b \in Bodies, out \in TransportOutcomes :
        /\ ~isIdempotent(m)
        /\ req' = [Method |-> m, Body |-> b]
        /\ sent' = Append(sent, [Method |-> m, body |-> Remaining(b, origBody)])
        /\ origBody' = [origBody EXCEPT !.pos = Len(b.data)]
        /\ lastOutcome' = out
        /\ pc' = "done"
        /\ result' = out
    /\ UNCHANGED <<clientTimeout, settings, t, bodyBytes, bo, numTries, next, timerFired,
                   cancelled, elapsed, lastDrain, priorErrs, step, waits, clientErr, client, otherVars>>

\* An idempotent method: the body is read and closed, the backoff is built
\* and backoff.Retry resets it before its first try.
RoundTripBegin ==
    /\ pc = "ready"
    /\ \E m \in Methods, b \in Bodies :
        LET rb == readBody(b, origBody) IN
        /\ isIdempotent(m)
        /\ req' = [Method |-> m, Body |-> b]
        /\ origBody' = IF b.kind # "reader" THEN origBody
                       ELSE [pos |-> IF b.fail = "read" THEN origBody.pos ELSE Len(b.data),
                             reads |-> origBody.reads + 1,
                             closed |-> b.fail # "read"]
        /\ IF rb.err # NoError
           THEN /\ Return(NilResp, rb.err)
                /\ UNCHANGED <<bodyBytes, bo, numTries>>
           ELSE /\ bodyBytes' = rb.bytes
                /\ bo' = Reset(t)
                /\ numTries' = 1
                /\ pc' = "attempt"
                /\ result' = result
    /\ UNCHANGED <<clientTimeout, settings, t, next, timerFired, cancelled, elapsed, sent,
                   lastOutcome, lastDrain, priorErrs, step, waits, clientErr, client, otherVars>>

\* The error of draining and closing a response the stage discards.
drainError(drain) ==
    CASE drain = "copyErr" -> "copy failed"
      [] drain = "closeErr" -> "close failed"
      [] OTHER -> NoError

\* The body of a response op discards is left open when io.Copy fails: op
\* returns copyErr before it reaches resp.Body.Close().
bodyLeftOpen(out, drain) == out.err = NoError /\ ~out.resp.nil /\ drain = "copyErr"

\* op that discards a response with a retriable status without an error.
opDropsStatusError(tr, out, drain) ==
    IF out.err # NoError THEN [resp |-> NilResp, err |-> out.err, after |-> 0]
    ELSE IF ~shouldRetry(tr, out.resp.status) THEN [resp |-> out.resp, err |-> NoError, after |-> 0]
    ELSE [resp |-> NilResp, err |-> NoError, after |-> 0]

\* op that hands a response with a retriable status back as a success.
opKeepsResponse(tr, out, drain) ==
    IF out.err # NoError THEN [resp |-> NilResp, err |-> out.err, after |-> 0]
    ELSE [resp |-> out.resp, err |-> NoError, after |-> 0]

\* op that honours Retry-After whatever the retriable status.
opRetryAfterAnyStatus(tr, out, drain) ==
    IF out.err # NoError THEN [resp |-> NilResp, err |-> out.err, after |-> 0]
    ELSE IF ~shouldRetry(tr, out.resp.status) THEN [resp |-> out.resp, err |-> NoError, after |-> 0]
    ELSE IF drainError(drain) # NoError
         THEN [resp |-> NilResp, err |-> drainError(drain), after |-> 0]
    ELSE IF parseRetryAfter(out.resp.retryAfter) > 0
         THEN [resp |-> NilResp, err |-> "retry after",
               after |-> parseRetryAfter(out.resp.retryAfter)]
    ELSE [resp |-> NilResp, err |-> "retriable status code", after |-> 0]

\* op, the closure given to backoff.Retry, from the transport's answer on:
\* [resp, err, after]; err = "retry after" is a *backoff.RetryAfterError with
\* Duration after.
op(tr, out, drain) ==
    IF out.err # NoError THEN [resp |-> NilResp, err |-> out.err, after |-> 0]
    ELSE IF ~shouldRetry(tr, out.resp.status) THEN [resp |-> out.resp, err |-> NoError, after |-> 0]
    ELSE IF /\ out.resp.status \in {StatusTooManyRequests, StatusServiceUnavailable}
            /\ parseRetryAfter(out.resp.retryAfter) > 0
         THEN IF drainError(drain) # NoError
              THEN [resp |-> NilResp, err |-> drainError(drain), after |-> 0]
              ELSE [resp |-> NilResp, err |-> "retry after",
                    after |-> parseRetryAfter(out.resp.retryAfter)]
    ELSE IF drainError(drain) # NoError
         THEN [resp |-> NilResp, err |-> drainError(drain), after |-> 0]
    ELSE [resp |-> NilResp, err |-> "retriable status code", after |-> 0]

\* backoff.Retry that gives up on a transport error instead of retrying it.
retryDecisionNoNetRetry(tr, res, tries, ctxDone) ==
    IF res.err \in {NoError, TransportError} THEN "return"
    ELSE IF MaxTries(tr) > 0 /\ tries >= MaxTries(tr) THEN "return"
    ELSE IF ctxDone THEN "cancelled"
    ELSE "wait"

\* backoff.Retry after operation() returned: "return" (with res, err),
\* "cancelled" (return context.Cause(ctx)) or "wait".
retryDecision(tr, res, tries, ctxDone) ==
    IF res.err = NoError THEN "return"
    ELSE IF MaxTries(tr) > 0 /\ tries >= MaxTries(tr) THEN "return"
    ELSE IF ctxDone THEN "cancelled"
    ELSE "wait"

\* backoff.Retry that waits the smaller of the backoff and the Retry-After.
waitDurationSmaller(tr, res, b, k) ==
    LET nb == NextBackOff(tr, b, k) IN
    IF res.err = "retry after"
    THEN [next |-> IF res.after < nb.next THEN res.after ELSE nb.next,
          bo |-> Reset(tr), step |-> nb.step]
    ELSE nb

\* The duration backoff.Retry starts its timer with: next is drawn from
\* NextBackOff, and a RetryAfterError replaces it and resets the backoff.
waitDuration(tr, res, b, k) ==
    LET nb == NextBackOff(tr, b, k) IN
    IF res.err = "retry after"
    THEN [next |-> res.after, bo |-> Reset(tr), step |-> nb.step]
    ELSE nb

RandomsOf(tr, res, tries, ctxDone) ==
    IF retryDecision(tr, res, tries, ctxDone) = "wait" /\ res.err # "retry after"
    THEN RandomValues ELSE {0}

\* One pass of backoff.Retry's loop up to the start of its timer.
Attempt ==
    /\ pc = "attempt"
    /\ \E out \in TransportOutcomes :
       \E drain \in DrainsOf(t, out) :
       \E k \in RandomsOf(t, op(t, out, drain), numTries, cancelled) :
        LET res == op(t, out, drain)
            decision == retryDecision(t, res, numTries, cancelled)
            w == waitDuration(t, res, bo, k)
        IN
        /\ sent' = Append(sent, [Method |-> req.Method,
                                 body |-> attemptBody(bodyBytes, req.Body, origBody)])
        /\ lastOutcome' = out
        /\ lastDrain' = drain
        /\ elapsed' = 0
        /\ CASE decision = "return" ->
                  /\ Return(res.resp, res.err)
                  /\ UNCHANGED <<bo, next, timerFired, step, waits>>
             [] decision = "cancelled" ->
                  /\ Return(NilResp, "context canceled")
                  /\ UNCHANGED <<bo, next, timerFired, step, waits>>
             [] OTHER ->
                  /\ pc' = "wait"
                  /\ next' = w.next
                  /\ bo' = w.bo
                  /\ step' = w.step
                  /\ timerFired' = FALSE
                  /\ waits' = waits + 1
                  /\ result' = result
    /\ UNCHANGED <<clientTimeout, settings, t, req, origBody, bodyBytes, numTries,
                   cancelled, priorErrs, clientErr, client, otherVars>>

\* The timer started with `next` expires.  Once ctx.Done() is closed the
\* select returns without the rest of `next` going by, so the timer can only
\* be found expired as well when it had nothing left to run.
TimerFire ==
    /\ pc = "wait"
    /\ ~timerFired
    /\ ~cancelled \/ elapsed >= next
    /\ timerFired' = TRUE
    /\ elapsed' = next
    /\ UNCHANGED <<pc, clientTimeout, settings, t, req, origBody, bodyBytes, bo, numTries,
                   next, cancelled, sent, lastOutcome, lastDrain, priorErrs, step, waits,
                   clientErr, result, client, otherVars>>

\* select: case <-args.Timer.C(): the loop's next pass begins, res and err of
\* the pass that ended are gone.
SelectTimer ==
    /\ pc = "wait"
    /\ timerFired
    /\ pc' = "attempt"
    /\ numTries' = numTries + 1
    /\ next' = 0
    /\ timerFired' = FALSE
    /\ lastOutcome' = NoOutcome
    /\ lastDrain' = "none"
    /\ priorErrs' = (priorErrs /\ lastOutcome.err # NoError)
    /\ UNCHANGED <<clientTimeout, settings, t, req, origBody, bodyBytes, bo, cancelled,
                   elapsed, sent, step, waits, clientErr, result, client, otherVars>>

\* A select that goes back to waiting when it finds ctx.Done() closed.
SelectDoneKeepsWaiting ==
    /\ pc = "wait"
    /\ cancelled
    /\ timerFired' = FALSE
    /\ UNCHANGED <<pc, clientTimeout, settings, t, req, origBody, bodyBytes, bo, numTries, next,
                   cancelled, elapsed, sent, lastOutcome, lastDrain, priorErrs, step, waits,
                   clientErr, result, client, otherVars>>

\* A select whose ctx.Done() case falls through to the next pass of the loop.
SelectDoneFallsThrough ==
    /\ pc = "wait"
    /\ cancelled
    /\ pc' = "attempt"
    /\ numTries' = numTries + 1
    /\ UNCHANGED <<clientTimeout, settings, t, req, origBody, bodyBytes, bo, next,
                   timerFired, cancelled, elapsed, sent, lastOutcome, lastDrain, priorErrs,
                   step, waits, clientErr, result, client, otherVars>>

\* select: case <-ctx.Done()
SelectDone ==
    /\ pc = "wait"
    /\ cancelled
    /\ Return(NilResp, "context canceled")
    /\ UNCHANGED <<clientTimeout, settings, t, req, origBody, bodyBytes, bo, numTries, next,
                   timerFired, cancelled, elapsed, sent, lastOutcome, lastDrain, priorErrs,
                   step, waits,
                   clientErr, client, otherVars>>

\* The request's context is cancelled or reaches its deadline.
Cancel ==
    /\ pc \in {"ready", "attempt", "wait"}
    /\ ~cancelled
    /\ cancelled' = TRUE
    /\ UNCHANGED <<pc, clientTimeout, settings, t, req, origBody, bodyBytes, bo, numTries,
                   next, timerFired, elapsed, sent, lastOutcome, lastDrain, priorErrs,
                   step, waits,
                   clientErr, result, client, otherVars>>

(***************************************************************************)
(* One call through http.Client{Timeout: cfg.timeout} with time followed:   *)
(* net/http cancels the request's context when Timeout has gone by since    *)
(* the call started, and its Transport fails a round trip whose context is  *)
(* done.                                                                    *)
(***************************************************************************)
TimedTimeout == 900
TimedSettings ==
    {[MaxRetries |-> 0, InitialInterval |-> i, MaxInterval |-> 150,
      Multiplier |-> ZeroMultiplier, RetriableStatusCodes |-> NilCodes] : i \in {100}}
AttemptDurations == {300}

TimedNewClient == NewClientFrom({TimedTimeout}, {TRUE}, TimedSettings)

\* The deadline net/http gives the call: none when Timeout is 0.
HasDeadline == ~client.nil /\ client.Timeout > 0

\* A transport attempt is in flight and takes d, ending before the deadline.
AttemptTakesTime ==
    /\ pc = "attempt"
    /\ ~cancelled
    /\ \E d \in AttemptDurations :
        /\ HasDeadline => clock + d < client.Timeout
        /\ clock + d <= 2 * TimedTimeout
        /\ clock' = clock + d
    /\ UNCHANGED <<retryVars, headerVars, breakerVars, auxVars>>

\* TimerFire with the time it takes: the timer expires no later than the deadline.
TimerExpires ==
    /\ pc = "wait"
    /\ ~timerFired
    /\ ~cancelled \/ elapsed >= next
    /\ HasDeadline => clock + next <= client.Timeout
    /\ timerFired' = TRUE
    /\ elapsed' = next
    /\ clock' = clock + next
    /\ UNCHANGED <<pc, clientTimeout, settings, t, req, origBody, bodyBytes, bo, numTries,
                   next, cancelled, sent, lastOutcome, lastDrain, priorErrs, step, waits,
                   clientErr, result, client, headerVars, breakerVars, auxVars>>

\* Timeout has gone by: the context of the request is cancelled.  During a
\* wait this is before the timer expires, or at the very moment it does.
Deadline ==
    /\ HasDeadline
    /\ ~cancelled
    /\ \/ pc = "attempt"
       \/ pc = "wait" /\ ~timerFired /\ clock + next >= client.Timeout
       \/ pc = "wait" /\ timerFired /\ clock = client.Timeout
    /\ cancelled' = TRUE
    /\ clock' = client.Timeout
    /\ elapsed' = IF pc = "wait" THEN elapsed + (client.Timeout - clock) ELSE elapsed
    /\ UNCHANGED <<pc, clientTimeout, settings, t, req, origBody, bodyBytes, bo, numTries,
                   next, timerFired, sent, lastOutcome, lastDrain, priorErrs, step, waits,
                   clientErr, result, client, headerVars, breakerVars, auxVars>>

\* Attempt through net/http's Transport: a round trip under a done context fails.
TimedAttempt == Attempt /\ (cancelled => lastOutcome'.err # NoError)

TimedNext ==
    \/ TimedNewClient
    \/ RoundTripOnce
    \/ RoundTripBegin
    \/ TimedAttempt
    \/ AttemptTakesTime
    \/ TimerExpires
    \/ SelectTimer
    \/ SelectDone
    \/ Deadline

TimeoutSpec == Init /\ [][TimedNext]_vars

(***************************************************************************)
(* headerTransport.RoundTrip.                                              *)
(***************************************************************************)
StaticValue(k) ==
    CASE k = "X-API-Key" -> "secret"
      [] k = "x-api-key" -> "lower-secret"
      [] OTHER -> "static-id"

\* StaticHeaders: any keys, each with its value or with the empty string.
StaticHeaderMaps ==
    UNION {[D -> {"", "*"}] : D \in SUBSET HeaderKeys}

StaticHeaderValue(static, k) == IF static[k] = "*" THEN StaticValue(k) ELSE ""

ContextKeyOf(k) == IF k = "X-Request-ID" THEN "requestID" ELSE "apiKey"

\* ContextHeaders: header name -> context key.
ContextHeaderMaps ==
    {[k \in D |-> ContextKeyOf(k)] : D \in SUBSET {"X-API-Key", "X-Request-ID"}}

HeaderSettingsIn == [ContextHeaders : ContextHeaderMaps, StaticHeaders : StaticHeaderMaps]

HeaderValuesIn == {<<>>, <<"caller">>, <<"">>, <<"", "caller">>}
HeaderRequests == [Header : [HeaderNames -> HeaderValuesIn], ctx : Contexts]

\* The orders in which `range` may visit the keys of a map.
RangeOrders(m) ==
    {o \in [1..Cardinality(DOMAIN m) -> DOMAIN m] : \A k \in DOMAIN m : \E i \in DOMAIN o : o[i] = k}

\* req.Clone that shares the Header map with the caller's request.
CloneSharesHeader(r) == [Header |-> r.Header, ctx |-> r.ctx, shares |-> TRUE]

\* req.Clone(req.Context()): the clone has its own copy of the Header map.
Clone(r) == [Header |-> r.Header, ctx |-> r.ctx, shares |-> FALSE]

\* for k, v := range t.settings.StaticHeaders, visited in the given order.
RECURSIVE ApplyStaticHeaders(_, _, _)
ApplyStaticHeaders(h, static, order) ==
    IF order = <<>> THEN h
    ELSE LET k == Head(order) IN
         ApplyStaticHeaders(IF HeaderGet(h, k) = ""
                            THEN HeaderSet(h, k, StaticHeaderValue(static, k)) ELSE h,
                            static, Tail(order))

\* The loop over ContextHeaders without the test of the value against nil.
RECURSIVE ApplyContextHeadersAnyValue(_, _, _, _)
ApplyContextHeadersAnyValue(h, ctxHeaders, ctx, order) ==
    IF order = <<>> THEN h
    ELSE LET header == Head(order)
             value == ContextValue(ctx, ctxHeaders[header])
         IN ApplyContextHeadersAnyValue(
                IF HeaderGet(h, header) = ""
                THEN HeaderSet(h, header, IF value.kind = "nil" THEN "<nil>" ELSE Sprint(value))
                ELSE h,
                ctxHeaders, ctx, Tail(order))

\* for header, ctxKey := range t.settings.ContextHeaders, in the given order.
RECURSIVE ApplyContextHeaders(_, _, _, _)
ApplyContextHeaders(h, ctxHeaders, ctx, order) ==
    IF order = <<>> THEN h
    ELSE LET header == Head(order)
             value == ContextValue(ctx, ctxHeaders[header])
         IN ApplyContextHeaders(
                IF value.kind # "nil" /\ HeaderGet(h, header) = ""
                THEN HeaderSet(h, header, Sprint(value)) ELSE h,
                ctxHeaders, ctx, Tail(order))

\* RoundTrip with the loop over ContextHeaders ahead of the loop over
\* StaticHeaders.
headerRoundTripContextFirst(hs, r, staticOrder, contextOrder) ==
    LET reqClone == Clone(r)
        h == ApplyStaticHeaders(
                 ApplyContextHeaders(reqClone.Header, hs.ContextHeaders, r.ctx, contextOrder),
                 hs.StaticHeaders, staticOrder)
    IN [clone |-> h, req |-> IF reqClone.shares THEN [r EXCEPT !.Header = h] ELSE r]

\* headerTransport.RoundTrip up to the call of t.next: the Header of reqClone
\* and the caller's request as the stage leaves it.
headerRoundTrip(hs, r, staticOrder, contextOrder) ==
    LET reqClone == Clone(r)
        h == ApplyContextHeaders(
                 ApplyStaticHeaders(reqClone.Header, hs.StaticHeaders, staticOrder),
                 hs.ContextHeaders, r.ctx, contextOrder)
    IN [clone |-> h, req |-> IF reqClone.shares THEN [r EXCEPT !.Header = h] ELSE r]

HeaderInit ==
    /\ RetryUnused
    /\ BreakerUnused
    /\ RegistryUnused
    /\ ParseUnused
    /\ ChainUnused
    /\ headerSettings = NoHeaderSettings
    /\ hdrReq = NoHeaderRequest
    /\ hdrClone = [Header |-> EmptyHeader, calls |-> 0]
    /\ hdrPc = "new"

newHeaderTransport ==
    /\ hdrPc = "new"
    /\ \E hs \in HeaderSettingsIn : headerSettings' = hs
    /\ hdrPc' = "ready"
    /\ UNCHANGED <<retryVars, clock, breakerVars, auxVars, hdrReq, hdrClone>>

\* A caller hands a request to the stage.
HeaderRequest ==
    /\ hdrPc = "ready"
    /\ \E r \in HeaderRequests : hdrReq' = r
    /\ hdrPc' = "called"
    /\ UNCHANGED <<retryVars, clock, breakerVars, auxVars, headerSettings, hdrClone>>

HeaderRoundTrip ==
    /\ hdrPc = "called"
    /\ \E so \in RangeOrders(headerSettings.StaticHeaders),
          co \in RangeOrders(headerSettings.ContextHeaders) :
        LET out == headerRoundTrip(headerSettings, hdrReq, so, co) IN
        /\ hdrClone' = [Header |-> out.clone, calls |-> hdrClone.calls + 1]
        /\ hdrReq' = out.req
    /\ hdrPc' = "done"
    /\ UNCHANGED <<retryVars, clock, breakerVars, auxVars, headerSettings>>

HeaderNext ==
    \/ newHeaderTransport
    \/ HeaderRequest
    \/ HeaderRoundTrip

HeaderSpec == HeaderInit /\ [][HeaderNext]_vars

(***************************************************************************)
(* newCircuitBreakers and HTTPClient.ExecuteWithBreaker on one key, with    *)
(* gobreaker's CircuitBreaker behind it.                                    *)
(***************************************************************************)
MaxRuns == 6
MaxGeneration == 3

ErrBadResponse == "server error"
ErrOpenState == "circuit breaker is open"
ErrTooManyRequests == "too many requests"

BreakerStatuses == {200, 429, 500}

\* CircuitBreakerSettings.  ReadyToTrip 0 is nil, n > 0 is
\* counts.ConsecutiveFailures >= n; ShouldTrip "nil" is nil, "custom" is
\* code == 429 || code >= 500, "never" is func(int) bool { return false }.
CircuitBreakerSettingsIn ==
    [ReadyToTrip : {0, 1, 2}, MaxRequests : {0, 2}, Interval : {0, 60 * Second},
     ShouldTrip : {"nil", "custom", "never"}]

\* A default shouldTrip that leaves out 500 itself.
shouldTripAbove500(st, statusCode) ==
    CASE st.ShouldTrip = "nil" -> statusCode > 500
      [] st.ShouldTrip = "custom" -> statusCode = 429 \/ statusCode >= 500
      [] OTHER -> FALSE

\* The shouldTrip newCircuitBreakers stores for the key.
shouldTrip(st, statusCode) ==
    CASE st.ShouldTrip = "nil" -> statusCode >= 500
      [] st.ShouldTrip = "custom" -> statusCode = 429 \/ statusCode >= 500
      [] OTHER -> FALSE

\* gobreaker.NewCircuitBreaker(settings.Settings): closed, first generation.
NewCircuitBreaker(st) ==
    [state |-> "closed", generation |-> 1, counts |-> NoCounts,
     maxRequests |-> IF st.MaxRequests = 0 THEN 1 ELSE st.MaxRequests,
     tripAfter |-> st.ReadyToTrip, interval |-> st.Interval]

\* cb.readyToTrip: the setting, or ConsecutiveFailures > 5 when it was nil.
readyToTrip(cb, counts) ==
    IF cb.tripAfter = 0 THEN counts.ConsecutiveFailures > 5
    ELSE counts.ConsecutiveFailures >= cb.tripAfter

\* toNewGeneration: the counts start again.
toNewGeneration(cb) == [cb EXCEPT !.generation = @ + 1, !.counts = NoCounts]

setState(cb, state) ==
    IF cb.state = state THEN cb ELSE toNewGeneration([cb EXCEPT !.state = state])

onRequest(counts) == [counts EXCEPT !.Requests = @ + 1]

onSuccessCounts(counts) ==
    [counts EXCEPT !.TotalSuccesses = @ + 1, !.ConsecutiveSuccesses = @ + 1,
                   !.ConsecutiveFailures = 0]

onFailureCounts(counts) ==
    [counts EXCEPT !.TotalFailures = @ + 1, !.ConsecutiveFailures = @ + 1,
                   !.ConsecutiveSuccesses = 0]

onSuccess(cb) ==
    LET counted == [cb EXCEPT !.counts = onSuccessCounts(@)] IN
    CASE cb.state = "closed" -> counted
      [] cb.state = "half-open" ->
            IF counted.counts.ConsecutiveSuccesses >= cb.maxRequests
            THEN setState(counted, "closed") ELSE counted
      [] OTHER -> cb

\* onFailure that treats a failure of a half-open breaker as it treats one
\* of a closed breaker.
onFailureCountsHalfOpen(cb) ==
    LET counted == [cb EXCEPT !.counts = onFailureCounts(@)] IN
    IF cb.state \in {"closed", "half-open"}
    THEN IF readyToTrip(cb, counted.counts) THEN setState(counted, "open") ELSE counted
    ELSE cb

onFailure(cb) ==
    LET counted == [cb EXCEPT !.counts = onFailureCounts(@)] IN
    CASE cb.state = "closed" ->
            IF readyToTrip(cb, counted.counts) THEN setState(counted, "open") ELSE counted
      [] cb.state = "half-open" -> setState(cb, "open")
      [] OTHER -> cb

\* beforeRequest that lets a call through whatever the state.
beforeRequestAdmitsAll(cb) ==
    [err |-> NoError, cb |-> [cb EXCEPT !.counts = onRequest(@)]]

\* beforeRequest without the limit on the calls of a half-open breaker.
beforeRequestNoLimit(cb) ==
    IF cb.state = "open" THEN [err |-> ErrOpenState, cb |-> cb]
    ELSE [err |-> NoError, cb |-> [cb EXCEPT !.counts = onRequest(@)]]

\* beforeRequest: the error for the caller, and the breaker afterwards.
beforeRequest(cb) ==
    IF cb.state = "open" THEN [err |-> ErrOpenState, cb |-> cb]
    ELSE IF cb.state = "half-open" /\ cb.counts.Requests >= cb.maxRequests
    THEN [err |-> ErrTooManyRequests, cb |-> cb]
    ELSE [err |-> NoError, cb |-> [cb EXCEPT !.counts = onRequest(@)]]

\* afterRequest that takes in a result whatever generation its call was
\* admitted in.
afterRequestAnyGeneration(cb, before, success) ==
    IF success THEN onSuccess(cb) ELSE onFailure(cb)

\* afterRequest that closes the breaker on any success, whatever the
\* generation of the call and the state of the breaker.
afterRequestSuccessCloses(cb, before, success) ==
    IF success THEN setState(cb, "closed")
    ELSE IF cb.generation # before THEN cb
    ELSE onFailure(cb)

\* afterRequest(before, success): a result of an earlier generation is dropped.
afterRequest(cb, before, success) ==
    IF cb.generation # before THEN cb
    ELSE IF success THEN onSuccess(cb) ELSE onFailure(cb)

\* What fn may return: an error, without a response or along with one, or a
\* response.
FnOutcomes ==
    {Outcome(NilResp, "connection refused"), Outcome(Resp(200, NoHeader), "unexpected EOF")}
        \cup {Outcome(Resp(code, NoHeader), NoError) : code \in BreakerStatuses}

\* The function handed to breaker.Execute, passing on whatever fn returned
\* along with its error.
guardedKeepsResponse(out, trips) ==
    IF out.err # NoError THEN Outcome(out.resp, out.err)
    ELSE IF out.resp.status \in trips THEN Outcome(out.resp, ErrBadResponse)
    ELSE Outcome(out.resp, NoError)

\* The function handed to breaker.Execute, without the ShouldTrip test.
guardedNoShouldTrip(out, trips) ==
    IF out.err # NoError THEN Outcome(NilResp, out.err) ELSE Outcome(out.resp, NoError)

\* The function ExecuteWithBreaker hands to breaker.Execute, given what fn
\* returned and the status codes ShouldTrip accepts.
guarded(out, trips) ==
    IF out.err # NoError THEN Outcome(NilResp, out.err)
    ELSE IF out.resp.status \in trips THEN Outcome(out.resp, ErrBadResponse)
    ELSE Outcome(out.resp, NoError)

BreakerInit ==
    /\ RetryUnused
    /\ HeaderUnused
    /\ RegistryUnused
    /\ ParseUnused
    /\ ChainUnused
    /\ breaker = NoBreaker
    /\ shouldTripSet = {}
    /\ cbPc = "new"
    /\ cbRuns = 0
    /\ cbResult = [c \in Callers |-> IdleCall]

newCircuitBreakers ==
    /\ cbPc = "new"
    /\ \E st \in CircuitBreakerSettingsIn :
        /\ breaker' = NewCircuitBreaker(st)
        /\ shouldTripSet' = {code \in BreakerStatuses : shouldTrip(st, code)}
    /\ cbPc' = "ready"
    /\ UNCHANGED <<retryVars, clock, headerVars, auxVars, cbRuns, cbResult>>

\* ExecuteWithBreaker up to the call of fn: breaker.Execute's beforeRequest;
\* a refused call returns at once.
ExecuteBegin(c) ==
    /\ cbPc = "ready"
    /\ cbResult[c].pc # "running"
    /\ LET before == beforeRequest(breaker) IN
       IF before.err # NoError
       THEN /\ cbResult' = [cbResult EXCEPT ![c] =
                   [IdleCall EXCEPT !.pc = "returned", !.err = before.err]]
            /\ UNCHANGED <<breaker, cbRuns>>
       ELSE /\ cbRuns < MaxRuns
            /\ breaker' = before.cb
            /\ cbRuns' = cbRuns + 1
            /\ cbResult' = [cbResult EXCEPT ![c] =
                   [IdleCall EXCEPT !.pc = "running", !.generation = breaker.generation,
                                    !.ran = TRUE]]
    /\ UNCHANGED <<retryVars, clock, headerVars, auxVars, shouldTripSet, cbPc>>

\* fn returns out, the guarded function turns it into the result,
\* afterRequest takes it in, and ExecuteWithBreaker returns.
ExecuteReturns(c, out) ==
    /\ cbResult[c].pc = "running"
    /\ LET res == guarded(out, shouldTripSet)
           success == res.err = NoError
       IN /\ breaker' = afterRequest(breaker, cbResult[c].generation, success)
          /\ cbResult' = [cbResult EXCEPT ![c] =
                 [@ EXCEPT !.pc = "returned", !.generation = 0, !.fn = out,
                           !.resp = res.resp, !.err = res.err,
                           !.reported = IF success THEN "success" ELSE "failure",
                           !.counted = (breaker.generation = cbResult[c].generation)]]
    /\ UNCHANGED <<retryVars, clock, headerVars, auxVars, shouldTripSet, cbPc, cbRuns>>

ExecuteEnd(c) == \E out \in FnOutcomes : ExecuteReturns(c, out)

\* The Timeout of the open state goes by: currentState finds the breaker
\* half-open.
OpenTimeout ==
    /\ cbPc = "ready"
    /\ breaker.state = "open"
    /\ breaker' = setState(breaker, "half-open")
    /\ UNCHANGED <<retryVars, clock, headerVars, auxVars, shouldTripSet, cbPc, cbRuns, cbResult>>

\* The Interval of the closed state goes by: currentState starts a new
\* generation.
IntervalExpires ==
    /\ cbPc = "ready"
    /\ breaker.state = "closed"
    /\ breaker.interval > 0
    /\ breaker.generation < MaxGeneration
    /\ breaker' = toNewGeneration(breaker)
    /\ UNCHANGED <<retryVars, clock, headerVars, auxVars, shouldTripSet, cbPc, cbRuns, cbResult>>

BreakerNext ==
    \/ newCircuitBreakers
    \/ \E c \in Callers : ExecuteBegin(c)
    \/ \E c \in Callers : ExecuteEnd(c)
    \/ OpenTimeout
    \/ IntervalExpires

BreakerSpec == BreakerInit /\ [][BreakerNext]_vars

(***************************************************************************)
(* circuitbreaker.NewRoundTripper: one breaker around a wrapped transport. *)
(***************************************************************************)
\* The circuitbreaker package's own errBadResponse: an error value of its
\* own, which no wrapped transport can return.
errBadResponse == "server error (circuitbreaker)"

\* circuitbreaker.Settings, written as CircuitBreakerSettingsIn is.
TransportSettingsIn ==
    [ReadyToTrip : {0, 1, 3}, MaxRequests : {0}, Interval : {0},
     ShouldTrip : {"nil", "custom", "never"}]

\* What the wrapped RoundTripper returns: a response, or an error with no
\* response.
WrappedOutcomes ==
    {Outcome(NilResp, "oh no")}
        \cup {Outcome(Resp(code, NoHeader), NoError) : code \in BreakerStatuses}

\* The function RoundTrip hands to cb.Execute, with wrapped.RoundTrip
\* returning out.
tripOnStatus(out, trips) ==
    IF ~out.resp.nil /\ out.resp.status \in trips
    THEN Outcome(out.resp, errBadResponse)
    ELSE out

\* RoundTrip's return that hands on whatever Execute returned.
suppressNothing(res) == res

\* RoundTrip's return: errBadResponse is suppressed, the response is kept.
suppress(res) ==
    IF res.err = errBadResponse THEN Outcome(res.resp, NoError) ELSE res

TransportInit == BreakerInit

NewRoundTripper ==
    /\ cbPc = "new"
    /\ \E st \in TransportSettingsIn :
        /\ breaker' = NewCircuitBreaker(st)
        /\ shouldTripSet' = {code \in BreakerStatuses : shouldTrip(st, code)}
    /\ cbPc' = "ready"
    /\ UNCHANGED <<retryVars, clock, headerVars, auxVars, cbRuns, cbResult>>

\* wrapped.RoundTrip returns out, afterRequest takes the function's result
\* in, and RoundTrip returns.
TransportReturns(c, out) ==
    /\ cbResult[c].pc = "running"
    /\ LET res == tripOnStatus(out, shouldTripSet)
           success == res.err = NoError
           ret == suppress(res)
       IN /\ breaker' = afterRequest(breaker, cbResult[c].generation, success)
          /\ cbResult' = [cbResult EXCEPT ![c] =
                 [@ EXCEPT !.pc = "returned", !.generation = 0, !.fn = out,
                           !.resp = ret.resp, !.err = ret.err,
                           !.reported = IF success THEN "success" ELSE "failure",
                           !.counted = (breaker.generation = cbResult[c].generation)]]
    /\ UNCHANGED <<retryVars, clock, headerVars, auxVars, shouldTripSet, cbPc, cbRuns>>

TransportEnd(c) == \E out \in WrappedOutcomes : TransportReturns(c, out)

TransportNext ==
    \/ NewRoundTripper
    \/ ExecuteBegin("a")
    \/ TransportEnd("a")
    \/ OpenTimeout

TransportSpec == TransportInit /\ [][TransportNext]_vars

(***************************************************************************)
(* One request through a client with retries, made inside                  *)
(* ExecuteWithBreaker: fn is the call through the client (http.Client.Do   *)
(* over the retry stage), the breaker is around the whole of it.           *)
(***************************************************************************)
GuardedTimeouts == {10 * Second}

GuardedSettings ==
    [MaxRetries : {3}, InitialInterval : {100}, MaxInterval : {150},
     Multiplier : {ZeroMultiplier}, RetriableStatusCodes : {NilCodes}]

GuardedBreakerSettings ==
    [ReadyToTrip : {0}, MaxRequests : {0}, Interval : {0}, ShouldTrip : {"nil", "custom"}]

\* The status codes the next transport of the model answers with.
TransportStatuses == {o.resp.status : o \in {x \in TransportOutcomes : ~x.resp.nil}}

GuardedNewClient == NewClientFrom(GuardedTimeouts, {TRUE}, GuardedSettings)

\* NewClient's newCircuitBreakers for the key of the call.
GuardedBreakers ==
    /\ cbPc = "new"
    /\ pc = "ready"
    /\ \E st \in GuardedBreakerSettings :
        /\ breaker' = NewCircuitBreaker(st)
        /\ shouldTripSet' = {code \in TransportStatuses : shouldTrip(st, code)}
    /\ cbPc' = "ready"
    /\ UNCHANGED <<retryVars, clock, headerVars, auxVars, cbRuns, cbResult>>

\* ExecuteWithBreaker is called and, admitted, calls fn.
GuardedBegin ==
    /\ pc = "ready"
    /\ cbResult["a"].pc = "idle"
    /\ ExecuteBegin("a")

\* fn sends the request through the client.
GuardedRoundTripOnce == cbResult["a"].pc = "running" /\ RoundTripOnce

GuardedRoundTripBegin == cbResult["a"].pc = "running" /\ RoundTripBegin

\* The call through the client has returned: fn returns its response and
\* error.
GuardedEnd ==
    /\ pc = "done"
    /\ ExecuteReturns("a", result)

GuardedNext ==
    \/ GuardedNewClient
    \/ GuardedBreakers
    \/ GuardedBegin
    \/ GuardedRoundTripOnce
    \/ GuardedRoundTripBegin
    \/ Attempt
    \/ TimerFire
    \/ SelectTimer
    \/ SelectDone
    \/ Cancel
    \/ GuardedEnd

GuardedSpec == BreakerInit /\ [][GuardedNext]_vars

(***************************************************************************)
(* The registry of breakers: WithCircuitBreakers, newCircuitBreakers over   *)
(* the keys, and GetBreaker, ShouldTrip and ExecuteWithBreaker by key, the  *)
(* calls on one key one after the other.                                   *)
(***************************************************************************)
MaxRegistryRuns == 2

RegistryKeys == {"users-get", "orders-get"}
CallKeys == RegistryKeys \cup {"non-existent"}
StatusCodesIn == {200, 429, 499, 500, 600}

RegistrySettingsIn ==
    [Key : RegistryKeys, Name : {"", "custom-name"}, ShouldTrip : {"nil", "custom", "never"},
     ReadyToTrip : {0, 1}, MaxRequests : {0}, Interval : {0}]

\* The slices WithCircuitBreakers may be given.
BreakerOptions == UNION {[1..n -> RegistrySettingsIn] : n \in 0..2}

\* WithCircuitBreakers: cfg.circuitBreakerSettings[settings.Key] = settings,
\* in the order of the slice.
RECURSIVE WithCircuitBreakers(_, _)
WithCircuitBreakers(list, m) ==
    IF list = <<>> THEN m
    ELSE LET st == Head(list) IN
         WithCircuitBreakers(Tail(list),
             [k \in DOMAIN m \cup {st.Key} |-> IF k = st.Key THEN st ELSE m[k]])

\* newCircuitBreakers(cbSettings): one circuitBreakerConfig per key.
newCircuitBreakersOf(cbs) ==
    [key \in DOMAIN cbs |->
        [name |-> IF cbs[key].Name = "" THEN key ELSE cbs[key].Name,
         trips |-> {code \in StatusCodesIn : shouldTrip(cbs[key], code)},
         cb |-> NewCircuitBreaker(cbs[key])]]

\* ExecuteWithBreaker that calls fn before it looks the key up.
executeWithBreakerRunsFirst(brs, key, out, runs) ==
    IF key \notin DOMAIN brs
    THEN [call |-> [NoRegistryCall EXCEPT !.op = "ExecuteWithBreaker", !.key = key,
                                         !.panicked = TRUE, !.ran = TRUE],
          brs |-> brs, runs |-> runs + 1]
    ELSE LET before == beforeRequest(brs[key].cb) IN
         IF before.err # NoError
         THEN [call |-> [NoRegistryCall EXCEPT !.op = "ExecuteWithBreaker", !.key = key,
                                              !.err = before.err],
               brs |-> brs, runs |-> runs]
         ELSE LET res == guarded(out, brs[key].trips) IN
              [call |-> [NoRegistryCall EXCEPT !.op = "ExecuteWithBreaker", !.key = key,
                                               !.resp = res.resp, !.err = res.err,
                                               !.ran = TRUE],
               brs |-> [brs EXCEPT ![key].cb =
                           afterRequest(before.cb, before.cb.generation, res.err = NoError)],
               runs |-> runs + 1]

\* ExecuteWithBreaker that registers a breaker with default settings for a
\* key it does not find, and goes on with it.
executeWithBreakerRegisters(brs, key, out, runs) ==
    LET found == IF key \in DOMAIN brs THEN brs
                 ELSE [k \in DOMAIN brs \cup {key} |->
                          IF k = key
                          THEN [name |-> key, trips |-> {code \in StatusCodesIn : code >= 500},
                                cb |-> NewCircuitBreaker([ReadyToTrip |-> 0, MaxRequests |-> 0,
                                                          Interval |-> 0])]
                          ELSE brs[k]]
        before == beforeRequest(found[key].cb)
    IN IF before.err # NoError
       THEN [call |-> [NoRegistryCall EXCEPT !.op = "ExecuteWithBreaker", !.key = key,
                                            !.err = before.err],
             brs |-> found, runs |-> runs]
       ELSE LET res == guarded(out, found[key].trips) IN
            [call |-> [NoRegistryCall EXCEPT !.op = "ExecuteWithBreaker", !.key = key,
                                             !.resp = res.resp, !.err = res.err,
                                             !.ran = TRUE],
             brs |-> [found EXCEPT ![key].cb =
                         afterRequest(before.cb, before.cb.generation, res.err = NoError)],
             runs |-> runs + 1]

\* ExecuteWithBreaker with one breaker behind every key: the result is taken
\* in by the breaker of each key.
executeWithBreakerAllKeys(brs, key, out, runs) ==
    IF key \notin DOMAIN brs
    THEN [call |-> [NoRegistryCall EXCEPT !.op = "ExecuteWithBreaker", !.key = key,
                                         !.panicked = TRUE],
          brs |-> brs, runs |-> runs]
    ELSE LET before == beforeRequest(brs[key].cb) IN
         IF before.err # NoError
         THEN [call |-> [NoRegistryCall EXCEPT !.op = "ExecuteWithBreaker", !.key = key,
                                              !.err = before.err],
               brs |-> brs, runs |-> runs]
         ELSE LET res == guarded(out, brs[key].trips) IN
              [call |-> [NoRegistryCall EXCEPT !.op = "ExecuteWithBreaker", !.key = key,
                                               !.resp = res.resp, !.err = res.err,
                                               !.ran = TRUE],
               brs |-> [k \in DOMAIN brs |->
                           [brs[k] EXCEPT !.cb =
                               afterRequest(beforeRequest(brs[k].cb).cb,
                                            brs[k].cb.generation, res.err = NoError)]],
               runs |-> runs + 1]

\* ExecuteWithBreaker(key, fn) with fn returning out: the call as it ended,
\* the breakers afterwards and the number of times fn has run.
executeWithBreaker(brs, key, out, runs) ==
    IF key \notin DOMAIN brs
    THEN [call |-> [NoRegistryCall EXCEPT !.op = "ExecuteWithBreaker", !.key = key,
                                         !.panicked = TRUE],
          brs |-> brs, runs |-> runs]
    ELSE LET before == beforeRequest(brs[key].cb) IN
         IF before.err # NoError
         THEN [call |-> [NoRegistryCall EXCEPT !.op = "ExecuteWithBreaker", !.key = key,
                                              !.err = before.err],
               brs |-> brs, runs |-> runs]
         ELSE LET res == guarded(out, brs[key].trips) IN
              [call |-> [NoRegistryCall EXCEPT !.op = "ExecuteWithBreaker", !.key = key,
                                               !.resp = res.resp, !.err = res.err,
                                               !.ran = TRUE],
               brs |-> [brs EXCEPT ![key].cb =
                           afterRequest(before.cb, before.cb.generation, res.err = NoError)],
               runs |-> runs + 1]

RegistryInit ==
    /\ RetryUnused
    /\ HeaderUnused
    /\ BreakerUnused
    /\ ParseUnused
    /\ ChainUnused
    /\ cbSettings = <<>>
    /\ breakers = <<>>
    /\ regPc = "new"
    /\ regCall = NoRegistryCall
    /\ regRuns = 0
    /\ peer = <<>>

\* NewClient's part for the breakers: the options fill
\* cfg.circuitBreakerSettings, newCircuitBreakers builds the registry.
NewClientBreakers ==
    /\ regPc = "new"
    /\ \E list \in BreakerOptions :
        LET cbs == WithCircuitBreakers(list, <<>>) IN
        /\ cbSettings' = cbs
        /\ breakers' = newCircuitBreakersOf(cbs)
    /\ regPc' = "ready"
    /\ UNCHANGED <<retryVars, clock, headerVars, breakerVars, parseVars, chainVars, regCall, regRuns, peer>>

GetBreaker ==
    /\ regPc = "ready"
    /\ \E key \in CallKeys :
        regCall' = IF key \notin DOMAIN breakers
                   THEN [NoRegistryCall EXCEPT !.op = "GetBreaker", !.key = key,
                                               !.panicked = TRUE]
                   ELSE [NoRegistryCall EXCEPT !.op = "GetBreaker", !.key = key,
                                               !.name = breakers[key].name]
    /\ UNCHANGED <<retryVars, clock, headerVars, breakerVars, parseVars, chainVars, cbSettings, breakers, regPc,
                   regRuns, peer>>

ShouldTrip ==
    /\ regPc = "ready"
    /\ \E key \in CallKeys, code \in StatusCodesIn :
        regCall' = IF key \notin DOMAIN breakers
                   THEN [NoRegistryCall EXCEPT !.op = "ShouldTrip", !.key = key,
                                               !.code = code, !.panicked = TRUE]
                   ELSE [NoRegistryCall EXCEPT !.op = "ShouldTrip", !.key = key,
                                               !.code = code,
                                               !.trip = (code \in breakers[key].trips)]
    /\ UNCHANGED <<retryVars, clock, headerVars, breakerVars, parseVars, chainVars, cbSettings, breakers, regPc,
                   regRuns, peer>>

ExecuteWithBreaker ==
    /\ regPc = "ready"
    /\ \E key \in CallKeys, out \in FnOutcomes :
        LET done == executeWithBreaker(breakers, key, out, regRuns) IN
        /\ done.runs <= MaxRegistryRuns
        /\ regCall' = done.call
        /\ breakers' = done.brs
        /\ regRuns' = done.runs
    /\ UNCHANGED <<retryVars, clock, headerVars, breakerVars, parseVars, chainVars, cbSettings, regPc, peer>>

RegistryNext ==
    \/ NewClientBreakers
    \/ GetBreaker
    \/ ShouldTrip
    \/ ExecuteWithBreaker

RegistrySpec == RegistryInit /\ [][RegistryNext]_vars

(***************************************************************************)
(* Two HTTPClients, each with the breakers its own NewClient built.        *)
(***************************************************************************)
PeerSettingsIn ==
    [Key : RegistryKeys, Name : {""}, ShouldTrip : {"nil"}, ReadyToTrip : {1},
     MaxRequests : {0}, Interval : {0}]

\* The slices WithCircuitBreakers is given for either client.
PeerOptions == UNION {[1..n -> PeerSettingsIn] : n \in 1..2}

PeerInit == RegistryInit

\* Two calls of NewClient: each runs newCircuitBreakers on its own
\* cfg.circuitBreakerSettings and keeps the map it returned.
NewClients ==
    /\ regPc = "new"
    /\ \E list \in PeerOptions, other \in PeerOptions :
        LET cbs == WithCircuitBreakers(list, <<>>) IN
        /\ cbSettings' = cbs
        /\ breakers' = newCircuitBreakersOf(cbs)
        /\ peer' = newCircuitBreakersOf(WithCircuitBreakers(other, <<>>))
    /\ regPc' = "ready"
    /\ UNCHANGED <<retryVars, clock, headerVars, breakerVars, parseVars, chainVars, regCall, regRuns>>

\* ExecuteWithBreaker on the second client: c.breakers is that client's map.
PeerExecuteWithBreaker ==
    /\ regPc = "ready"
    /\ \E key \in CallKeys, out \in FnOutcomes :
        LET done == executeWithBreaker(peer, key, out, regRuns) IN
        /\ done.runs <= MaxRegistryRuns
        /\ regCall' = [done.call EXCEPT !.on = "peer"]
        /\ peer' = done.brs
        /\ regRuns' = done.runs
    /\ UNCHANGED <<retryVars, clock, headerVars, breakerVars, parseVars, chainVars, cbSettings, breakers,
                   regPc>>

PeerNext ==
    \/ NewClients
    \/ GetBreaker
    \/ ShouldTrip
    \/ ExecuteWithBreaker
    \/ PeerExecuteWithBreaker

PeerSpec == PeerInit /\ [][PeerNext]_vars

(***************************************************************************)
(* The chain of stages NewClient builds, and a call with an idempotent     *)
(* method through it: the stages below the retry stage see every attempt,  *)
(* the stages above it see the call once.                                  *)
(***************************************************************************)
\* NewClient's chain with the header stage wrapped around the retry stage.
buildChainHeadersOutside(cfg) ==
    LET base == <<"pool">>
        n == IF cfg.newRelic THEN <<"newrelic">> \o base ELSE base
        r == IF cfg.retries THEN <<"retry">> \o n ELSE n
    IN IF cfg.headers THEN <<"headers">> \o r ELSE r

\* transport = base; each configured stage wraps what is there: headers,
\* then New Relic, then retries.  The result, outermost stage first.
buildChain(cfg) ==
    LET base == <<"pool">>
        h == IF cfg.headers THEN <<"headers">> \o base ELSE base
        n == IF cfg.newRelic THEN <<"newrelic">> \o h ELSE h
    IN IF cfg.retries THEN <<"retry">> \o n ELSE n

StageAt(stages, name) ==
    IF \E i \in DOMAIN stages : stages[i] = name
    THEN CHOOSE i \in DOMAIN stages : stages[i] = name ELSE 0

\* The stages a request passes before the retry stage, and the ones each of
\* the retry stage's attempts passes on its way to the base transport.
Outside(stages) == SubSeq(stages, 1, StageAt(stages, "retry") - 1)
Inside(stages) == SubSeq(stages, StageAt(stages, "retry") + 1, Len(stages))

HasStage(stages, name) == StageAt(stages, name) > 0

\* The Header a request r leaves the given stages with.
forwardThrough(stages, hs, r, so, co) ==
    IF HasStage(stages, "headers") THEN headerRoundTrip(hs, r, so, co).clone ELSE r.Header

ChainSettings ==
    [MaxRetries : {1}, InitialInterval : {10}, MaxInterval : {100},
     Multiplier : {DefaultMultiplier}, RetriableStatusCodes : {NilCodes}]

ChainHeaderSettings ==
    {[StaticHeaders |-> [k \in {"X-API-Key"} |-> "*"], ContextHeaders |-> c] :
        c \in {m \in ContextHeaderMaps : "X-Request-ID" \in DOMAIN m}}

ChainRequests ==
    [Header : [HeaderNames -> {<<>>, <<"caller">>}],
     ctx : {[k \in ContextKeys |-> v] : v \in {NilValue, StringValue("req-1")}}]

ChainMethods == {"GET", "PUT"}

ChainInit == HeaderInit

ChainNewClient == NewClientFrom(GuardedTimeouts, {TRUE}, ChainSettings)

\* NewClient's options other than the retries, and the chain it builds.
ChainStages ==
    /\ pc = "ready"
    /\ hdrPc = "new"
    /\ \E hs \in ChainHeaderSettings, withHeaders \in BOOLEAN, newRelic \in BOOLEAN :
        /\ headerSettings' = IF withHeaders THEN hs ELSE NoHeaderSettings
        /\ chain' = buildChain([headers |-> withHeaders, newRelic |-> newRelic,
                                retries |-> client.retries])
    /\ hdrPc' = "ready"
    /\ UNCHANGED <<retryVars, clock, breakerVars, registryVars, parseVars, hdrReq, hdrClone,
                   received>>

\* client.Do(req)
ChainRequest ==
    /\ hdrPc = "ready"
    /\ \E r \in ChainRequests : hdrReq' = r
    /\ hdrPc' = "called"
    /\ UNCHANGED <<retryVars, clock, breakerVars, auxVars, headerSettings, hdrClone>>

\* The request passes the stages wrapped around the retry stage.
ChainEnter ==
    /\ hdrPc = "called"
    /\ \E so \in RangeOrders(headerSettings.StaticHeaders),
          co \in RangeOrders(headerSettings.ContextHeaders) :
        hdrClone' = IF HasStage(Outside(chain), "headers")
                    THEN [Header |-> forwardThrough(Outside(chain), headerSettings, hdrReq, so, co),
                          calls |-> hdrClone.calls + 1]
                    ELSE [hdrClone EXCEPT !.Header = hdrReq.Header]
    /\ hdrPc' = "entered"
    /\ UNCHANGED <<retryVars, clock, breakerVars, auxVars, headerSettings, hdrReq>>

\* retryTransport.RoundTrip is entered.
ChainBegin ==
    /\ hdrPc = "entered"
    /\ RoundTripBegin
    /\ req'.Method \in ChainMethods

\* op's t.next.RoundTrip(reqClone): the clone of the request the retry stage
\* was given passes the stages below it and reaches the base transport.
ChainForward ==
    /\ pc = "attempt"
    /\ Len(received) = Len(sent)
    /\ \E so \in RangeOrders(headerSettings.StaticHeaders),
          co \in RangeOrders(headerSettings.ContextHeaders) :
        LET given == [hdrReq EXCEPT !.Header = hdrClone.Header]
            h == forwardThrough(Inside(chain), headerSettings, given, so, co)
        IN /\ received' = Append(received, h)
           /\ hdrClone' = IF HasStage(Inside(chain), "headers")
                          THEN [Header |-> hdrClone.Header, calls |-> hdrClone.calls + 1]
                          ELSE hdrClone
    /\ UNCHANGED <<retryVars, clock, breakerVars, registryVars, parseVars, headerSettings,
                   hdrReq, hdrPc, chain>>

\* The base transport answers and the answer comes back up to op.
ChainAttempt ==
    /\ Len(received) = Len(sent) + 1
    /\ Attempt

ChainNext ==
    \/ ChainNewClient
    \/ ChainStages
    \/ ChainRequest
    \/ ChainEnter
    \/ ChainBegin
    \/ ChainForward
    \/ ChainAttempt
    \/ TimerFire
    \/ SelectTimer
    \/ SelectDone
    \/ Cancel

ChainSpec == ChainInit /\ [][ChainNext]_vars

(***************************************************************************)
(* parseRetryAfter alone, called with header values at moments of the      *)
(* clock.  A date header here carries the moment it names, in milliseconds *)
(* of the clock; the call sees it as the time until that moment.           *)
(***************************************************************************)
MaxParseCalls == 2
MaxParseTicks == 2

ParseTick == 500

ParseTexts ==
    {<<>>, <<"1">>, <<"3", "0">>, <<"3", "0", "0">>, <<"3", "0", "1">>, <<"0">>,
     <<"-", "1", "0">>, <<"+", "5">>, <<"1", ".", "5">>, <<"i", "n", "v", "a", "l", "i", "d">>,
     <<" ", "5">>}

ParseDates == {0 - 10 * Second, 0, ParseTick, Second, 30 * Second, MaxRetryAfter,
               MaxRetryAfter + ParseTick, MaxRetryAfter + Second, 2 * MaxRetryAfter}

ParseHeaders == {TextHeader(chars) : chars \in ParseTexts} \cup {DateHeader(at) : at \in ParseDates}

\* The header as a call at moment now reads it: time.Until(t) for a date.
HeaderAt(header, now) ==
    IF header.form = "date" THEN DateHeader(header.delta - now) ELSE header

ParseInit ==
    /\ RetryUnused
    /\ HeaderUnused
    /\ BreakerUnused
    /\ RegistryUnused
    /\ ChainUnused
    /\ parseNow = 0
    /\ parseCalls = <<>>

\* parseRetryAfter(header), called now.
ParseCall ==
    /\ Len(parseCalls) < MaxParseCalls
    /\ \E header \in ParseHeaders :
        parseCalls' = Append(parseCalls,
                             [header |-> header, now |-> parseNow,
                              out |-> parseRetryAfter(HeaderAt(header, parseNow))])
    /\ UNCHANGED <<retryVars, clock, headerVars, breakerVars, registryVars, chainVars, parseNow>>

\* Time goes by between calls.
TimePasses ==
    /\ parseNow < MaxParseTicks * ParseTick
    /\ parseNow' = parseNow + ParseTick
    /\ UNCHANGED <<retryVars, clock, headerVars, breakerVars, registryVars, chainVars, parseCalls>>

ParseNext ==
    \/ ParseCall
    \/ TimePasses

ParseSpec == ParseInit /\ [][ParseNext]_vars

(***************************************************************************)
(* NewClient alone, over a wider range of timeouts and options.             *)
(***************************************************************************)
WideMaxRetries == 5
WideTimeouts == {-1, 0, 250, 251, 10000}
WideSettings ==
    [MaxRetries : -1..WideMaxRetries,
     InitialInterval : {-100, 0, 100, 5000},
     MaxInterval : {0, 150, 10000},
     Multiplier : {ZeroMultiplier, [num |-> 1, den |-> 2], [num |-> 1, den |-> 1],
                   [num |-> 3, den |-> 2], [num |-> 2, den |-> 1]},
     RetriableStatusCodes : {NilCodes}]

WideNewClient == NewClientFrom(WideTimeouts, BOOLEAN, WideSettings)

ConstructNext == WideNewClient

ConstructSpec == Init /\ [][ConstructNext]_vars

Next ==
    \/ NewClient
    \/ RoundTripOnce
    \/ RoundTripBegin
    \/ Attempt
    \/ TimerFire
    \/ SelectTimer
    \/ SelectDone
    \/ Cancel

Spec == Init /\ [][Next]_vars

(***************************************************************************)
(* One call through the retry stage under the scheduling RoundTrip relies  *)
(* on.                                                                     *)
(***************************************************************************)
LiveSettings ==
    [MaxRetries : {0, 1}, InitialInterval : {100}, MaxInterval : {150},
     Multiplier : {ZeroMultiplier}, RetriableStatusCodes : {NilCodes, Codes({503})}]

LiveMethods == {"GET", "DELETE"}

LiveNewClient == NewClientFrom({10 * Second}, {TRUE}, LiveSettings)

LiveBegin ==
    /\ RoundTripBegin
    /\ req'.Method \in LiveMethods

LiveNext ==
    \/ LiveNewClient
    \/ LiveBegin
    \/ Attempt
    \/ TimerFire
    \/ SelectTimer
    \/ SelectDone
    \/ Cancel

\* t.next.RoundTrip returns (Attempt), the timer backoff.Retry started
\* expires once its duration has gone by (TimerFire), and a select with a
\* ready case takes one (SelectTimer, SelectDone).  Nothing obliges the
\* caller to start a call or to cancel its context.
LiveSpec ==
    /\ Init
    /\ [][LiveNext]_vars
    /\ WF_vars(Attempt)
    /\ WF_vars(TimerFire)
    /\ WF_vars(SelectTimer)
    /\ WF_vars(SelectDone)

(***************************************************************************)
(* Properties of retryTransport.RoundTrip.                                 *)
(***************************************************************************)
RetriedMethods == {"GET", "HEAD", "OPTIONS", "TRACE", "PUT", "DELETE"}
Called == pc \in {"attempt", "wait", "done"}
IsResponse(o) == ~o.resp.nil
RetriableStatus(o) == IsResponse(o) /\ o.resp.status \in t.retriableStatusCodes

\* C1: a request whose method is not GET, HEAD, OPTIONS, TRACE, PUT or DELETE
\* reaches the next transport exactly once, and what that call returned is
\* what RoundTrip returns, with no wait.
C1_NonIdempotentOnce ==
    (Called /\ req.Method \notin RetriedMethods) =>
        /\ pc = "done"
        /\ Len(sent) = 1
        /\ sent[1].Method = req.Method
        /\ result = lastOutcome
        /\ waits = 0

C1_Witness ==
    /\ pc = "done"
    /\ req.Method = "PATCH"
    /\ t.maxRetries = 3
    /\ Len(sent) = 1
    /\ lastOutcome.resp.status = 503
    /\ result.resp.status = 503
    /\ result.err = NoError

\* C2: a call with an idempotent method never makes more than MaxRetries+1
\* transport attempts, and a call that ended on a retriable status without
\* its context being cancelled made exactly MaxRetries+1.
C2_AttemptsBounded ==
    (Called /\ req.Method \in RetriedMethods) =>
        /\ Len(sent) <= t.maxRetries + 1
        /\ (pc = "done" /\ RetriableStatus(lastOutcome) /\ ~cancelled)
               => Len(sent) = t.maxRetries + 1

C2_Witness ==
    /\ pc = "done"
    /\ req.Method = "GET"
    /\ settings.MaxRetries = 0
    /\ Len(sent) = 4
    /\ lastOutcome.resp.status = 503
    /\ ~cancelled

\* C3: the body of an idempotent-method request is read once, before the
\* first attempt, and every attempt receives the bytes it held.
C3_BodyReplayed ==
    (Called /\ req.Method \in RetriedMethods /\ req.Body.kind = "reader") =>
        /\ origBody.reads = 1
        /\ \A i \in 1..Len(sent) : sent[i].body = req.Body.data

C3_Witness ==
    /\ pc = "done"
    /\ req.Method = "PUT"
    /\ req.Body.data = <<1>>
    /\ origBody.reads = 1
    /\ Len(sent) = 2
    /\ sent[1].body = <<1>>
    /\ sent[2].body = <<1>>

\* C4: when reading the body of an idempotent-method request fails, RoundTrip
\* returns an error and no response, and the next transport is never called.
C4_BodyReadError ==
    (Called /\ req.Method \in RetriedMethods /\ req.Body.kind = "reader"
            /\ req.Body.fail = "read") =>
        /\ pc = "done"
        /\ result.resp.nil
        /\ result.err # NoError
        /\ sent = <<>>
        /\ waits = 0

C4_Witness ==
    /\ pc = "done"
    /\ req.Method = "DELETE"
    /\ req.Body.fail = "read"
    /\ result.err = "failed to read request body"
    /\ result.resp.nil
    /\ sent = <<>>

\* C5: an attempt of an idempotent-method request that returns a status outside
\* the retriable set ends the call: that response is returned with a nil
\* error, and the only waits made are those between the attempts.
C5_FinalStatusReturned ==
    (req.Method \in RetriedMethods /\ IsResponse(lastOutcome)
            /\ lastOutcome.resp.status \notin t.retriableStatusCodes) =>
        /\ pc = "done"
        /\ result = Outcome(lastOutcome.resp, NoError)
        /\ Len(sent) = numTries
        /\ waits = numTries - 1

C5_Witness ==
    /\ pc = "done"
    /\ req.Method = "GET"
    /\ t.maxRetries = 3
    /\ Len(sent) = 1
    /\ lastOutcome.resp.status = 500
    /\ result.resp.status = 500
    /\ result.err = NoError
    /\ waits = 0

\* C6: transport errors of an idempotent-method request are retried: a call
\* that ended on a transport error without being cancelled made all its
\* MaxRetries+1 attempts, and when the attempts before the last all failed at
\* the transport level and the last returned a non-retriable status, that
\* response is returned with a nil error after one attempt per failure plus one.
C6_NetworkErrorsRetried ==
    (pc = "done" /\ req.Method \in RetriedMethods /\ Len(sent) >= 1) =>
        /\ (lastOutcome.err # NoError /\ ~cancelled) => Len(sent) = t.maxRetries + 1
        /\ (priorErrs /\ IsResponse(lastOutcome) /\ ~RetriableStatus(lastOutcome)) =>
               /\ result = Outcome(lastOutcome.resp, NoError)
               /\ Len(sent) = numTries
               /\ Len(sent) <= t.maxRetries + 1

C6_Witness ==
    /\ pc = "done"
    /\ req.Method = "GET"
    /\ t.maxRetries = 3
    /\ priorErrs
    /\ Len(sent) = 4
    /\ lastOutcome.resp.status = 200
    /\ result = Outcome(lastOutcome.resp, NoError)

Exhausted ==
    /\ pc = "done"
    /\ req.Method \in RetriedMethods
    /\ Len(sent) = t.maxRetries + 1
    /\ RetriableStatus(lastOutcome)

RetryAfterDemanded(o) ==
    /\ RetriableStatus(o)
    /\ o.resp.status \in {429, 503}
    /\ parseRetryAfter(o.resp.retryAfter) > 0

\* A value NextBackOff can draw from the interval s.
InBackoffRange(d, s) == 2 * d >= s - 1 /\ 2 * d <= 3 * s + 2

\* C8: after a 429 or 503 with a valid Retry-After of duration d the next
\* attempt cannot start before d has elapsed since that response; and a GET
\* answered by 429 with Retry-After: 1 is retried, and answered by 200 on its
\* second attempt returns that response after exactly 2 attempts.
C8_RetryAfterHonoured ==
    /\ (pc = "wait" /\ timerFired /\ RetryAfterDemanded(lastOutcome))
           => elapsed >= parseRetryAfter(lastOutcome.resp.retryAfter)
    /\ (req.Method = "GET" /\ Len(sent) = 1 /\ RetryAfterDemanded(lastOutcome)
            /\ lastOutcome.resp = Resp(429, TextHeader(<<"1">>)) /\ ~cancelled)
           => pc = "wait"
    /\ (req.Method = "GET" /\ pc = "done" /\ Len(sent) = 2
            /\ IsResponse(lastOutcome) /\ lastOutcome.resp.status = 200)
           => result = Outcome(lastOutcome.resp, NoError)

\* op returned a RetryAfterError for the response.
RetryAfterApplied == RetryAfterDemanded(lastOutcome) /\ lastDrain = "ok"

\* C9 as stated: a Retry-After delay never makes a wait longer than the
\* computed backoff step.
C9_WaitNeverAboveBackoff ==
    pc = "wait" => InBackoffRange(next, step) \/ 2 * next < step

\* C9 amended: a Retry-After delay that is applied replaces the computed
\* backoff: the wait is then that delay, shorter or longer than the backoff
\* step; every other wait is the computed backoff step.
C9_RetryAfterReplacesBackoff ==
    pc = "wait" =>
        IF RetryAfterApplied
        THEN next = parseRetryAfter(lastOutcome.resp.retryAfter)
        ELSE InBackoffRange(next, step)

C9_Witness ==
    /\ pc = "wait"
    /\ RetryAfterApplied
    /\ lastOutcome.resp = Resp(503, TextHeader(<<"1">>))
    /\ next = Second
    /\ ~InBackoffRange(next, step)
    /\ next > t.maxInterval

\* C10: a Retry-After header on a retriable status other than 429 and 503, or
\* one that does not parse to a duration in (0, 5 minutes], leaves the wait at
\* the backoff step, and the request is still retried.
C10_RetryAfterIgnored ==
    (req.Method \in RetriedMethods /\ RetriableStatus(lastOutcome)
            /\ ~RetryAfterDemanded(lastOutcome)) =>
        /\ pc = "wait" =>
               /\ InBackoffRange(next, step)
               /\ step >= t.initialInterval
               /\ step <= t.maxInterval
        /\ (pc = "done" /\ ~cancelled) => Len(sent) = t.maxRetries + 1

C10_Witness ==
    /\ pc = "wait"
    /\ req.Method = "GET"
    /\ lastOutcome.resp = Resp(502, TextHeader(<<"1">>))
    /\ lastDrain = "ok"
    /\ step = 100
    /\ next < Second
    /\ InBackoffRange(next, step)

\* C11: when the request's context is done while the stage waits between two
\* attempts (the timer of the wait has not expired), the only step the call
\* takes is to return: at once, with no response and a non-nil error, and
\* without another transport attempt.
C11_CancelEndsWait ==
    [][(pc = "wait" /\ cancelled /\ ~timerFired) =>
           /\ pc' = "done"
           /\ result'.resp.nil
           /\ result'.err # NoError
           /\ sent' = sent
           /\ elapsed' = elapsed]_vars

C11_Witness ==
    /\ pc = "done"
    /\ req.Method = "GET"
    /\ cancelled
    /\ ~timerFired
    /\ next > 0
    /\ elapsed < next
    /\ Len(sent) = 1
    /\ waits = 1
    /\ t.maxRetries = 3
    /\ result = Outcome(NilResp, "context canceled")

\* The error http.Client.Do hands back: an error met once the deadline has
\* passed is reported as the client's timeout.
DoError ==
    IF result.err # NoError /\ cancelled THEN "Client.Timeout exceeded" ELSE result.err

Effective == applyDefaults(settings)
Validated == pc # "new" /\ clientTimeout > 0 /\ (pc = "rejected" \/ client.retries)

FieldsValid(s) ==
    /\ s.MaxRetries >= 0
    /\ s.InitialInterval > 0
    /\ s.MaxInterval >= s.InitialInterval
    /\ s.Multiplier.num >= s.Multiplier.den

\* InitialInterval * Multiplier^i, in time.Duration arithmetic.
RECURSIVE IntervalPower(_, _)
IntervalPower(s, i) ==
    IF i = 0 THEN s.InitialInterval ELSE ScaleDuration(IntervalPower(s, i - 1), s.Multiplier)

\* The sum over retries 0..n-1 of min(InitialInterval * Multiplier^i, MaxInterval).
RECURSIVE SumOfCappedSteps(_, _)
SumOfCappedSteps(s, n) ==
    IF n <= 0 THEN 0
    ELSE SumOfCappedSteps(s, n - 1)
         + (IF IntervalPower(s, n - 1) < s.MaxInterval THEN IntervalPower(s, n - 1)
            ELSE s.MaxInterval)

WorstCaseError == "worst case retry backoff must be less than client timeout"

\* C13: a policy whose fields are valid after defaults is rejected, with the
\* worst-case-backoff error, exactly when the sum of its capped backoff steps
\* reaches the client timeout, and is accepted when the sum is below it; 5
\* retries from 5s doubling up to 10s against a 10s timeout are rejected.
C13_WorstCaseAgainstTimeout ==
    (Validated /\ FieldsValid(Effective)) =>
        LET sum == SumOfCappedSteps(Effective, Effective.MaxRetries) IN
        /\ (sum >= clientTimeout) <=> (pc = "rejected" /\ clientErr = WorstCaseError)
        /\ (sum < clientTimeout) <=> (pc = "ready" /\ clientErr = NoError /\ ~client.nil)

C13_Witness ==
    /\ pc = "rejected"
    /\ clientTimeout = 10000
    /\ settings.MaxRetries = 5
    /\ settings.InitialInterval = 5000
    /\ settings.MaxInterval = 10000
    /\ settings.Multiplier = [num |-> 2, den |-> 1]
    /\ clientErr = WorstCaseError
    /\ client.nil

C15_TimeoutChecked ==
    (pc # "new") =>
        /\ clientTimeout <= 0 => (pc = "rejected" /\ client.nil /\ clientErr # NoError)
        /\ (clientTimeout > 0 /\ pc = "rejected") =>
               ~(FieldsValid(Effective)
                 /\ SumOfCappedSteps(Effective, Effective.MaxRetries) < clientTimeout)
        /\ pc = "ready" =>
               (~client.nil /\ client.Timeout = clientTimeout /\ clientErr = NoError)

C15_Witness ==
    /\ pc = "ready"
    /\ clientTimeout = 251
    /\ ~client.nil
    /\ ~client.retries
    /\ client.Timeout = 251
    /\ clientErr = NoError

(***************************************************************************)
(* The header stage (HeaderSpec).                                          *)
(***************************************************************************)
\* C16: every header name present on the incoming request has, in the
\* request passed on, the values the caller gave it; a configured header is
\* added only under a name the incoming request does not have.
C16_CallerHeadersKept ==
    (hdrPc = "done") =>
        \A n \in HeaderNames :
            hdrReq.Header[n] # <<>> => hdrClone.Header[n] = hdrReq.Header[n]

\* The part of C16 that the code keeps: a name whose first value on the
\* incoming request is not empty is passed on as the caller gave it.
C16_NonEmptyHeadersKept ==
    (hdrPc = "done") =>
        \A n \in HeaderNames :
            HeaderGet(hdrReq.Header, n) # "" => hdrClone.Header[n] = hdrReq.Header[n]

\* C17: the header stage leaves the caller's request as it was; what it adds
\* is on the copy alone.
C17_CallerRequestUnchanged ==
    [][(hdrPc = "called") => (hdrReq' = hdrReq /\ hdrPc' = "done" /\ hdrClone'.calls = 1)]_vars

C17_Witness ==
    /\ hdrPc = "done"
    /\ hdrReq.Header["X-Api-Key"] = <<>>
    /\ hdrReq.Header["X-Request-Id"] = <<>>
    /\ hdrClone.Header["X-Api-Key"] = <<"secret">>
    /\ hdrClone.Header["X-Request-Id"] = <<"req-1">>

\* Some static header with a value that is not empty is configured under n.
StaticGiven(n) ==
    \E k \in DOMAIN headerSettings.StaticHeaders :
        CanonicalMIMEHeaderKey(k) = n /\ headerSettings.StaticHeaders[k] # ""

\* What the static headers alone leave under a name the request lacks and
\* for which ~StaticGiven: an empty value when one is configured, else nothing.
StaticOnly(n) ==
    IF \E k \in DOMAIN headerSettings.StaticHeaders : CanonicalMIMEHeaderKey(k) = n
    THEN <<"">> ELSE <<>>

Returns(c) == cbResult[c].pc = "running" /\ cbResult'[c].pc = "returned"

\* This step took a failure into the breaker: the failure counts went up by
\* one in the same state, or the breaker opened in a new generation.
FailureRecorded ==
    \/ /\ breaker'.state = breaker.state
       /\ breaker'.generation = breaker.generation
       /\ breaker'.counts.TotalFailures = breaker.counts.TotalFailures + 1
       /\ breaker'.counts.ConsecutiveFailures = breaker.counts.ConsecutiveFailures + 1
       /\ breaker'.counts.ConsecutiveSuccesses = 0
    \/ /\ breaker'.state = "open"
       /\ breaker'.generation = breaker.generation + 1

C20_OpenRejectsWithoutRunning ==
    [][\A c \in Callers :
          /\ (breaker.state = "open" /\ cbResult[c].pc # "running"
                                      /\ cbResult'[c] # cbResult[c]) =>
                 /\ cbResult'[c].pc = "returned"
                 /\ cbResult'[c].err = ErrOpenState
                 /\ cbResult'[c].resp.nil
                 /\ ~cbResult'[c].ran
                 /\ cbRuns' = cbRuns
                 /\ breaker' = breaker
          /\ (Returns(c) /\ breaker.tripAfter = 1 /\ breaker.state = "closed"
                          /\ cbResult[c].generation = breaker.generation
                          /\ cbResult'[c].err # NoError) =>
                 breaker'.state = "open"]_vars

C20_Witness ==
    /\ breaker.tripAfter = 1
    /\ breaker.state = "open"
    /\ cbRuns = 1
    /\ cbResult["a"].pc = "returned"
    /\ cbResult["a"].resp = Resp(500, NoHeader)
    /\ cbResult["a"].err = ErrBadResponse
    /\ cbResult["b"].pc = "returned"
    /\ cbResult["b"].err = ErrOpenState
    /\ cbResult["b"].resp.nil
    /\ ~cbResult["b"].ran

\* This step took a success into the breaker: the success counts went up by
\* one in the same state, or the half-open breaker closed in a new generation.
SuccessRecorded ==
    \/ /\ breaker'.state = breaker.state
       /\ breaker'.generation = breaker.generation
       /\ breaker'.counts.TotalSuccesses = breaker.counts.TotalSuccesses + 1
       /\ breaker'.counts.ConsecutiveSuccesses = breaker.counts.ConsecutiveSuccesses + 1
       /\ breaker'.counts.ConsecutiveFailures = 0
    \/ /\ breaker.state = "half-open"
       /\ breaker'.state = "closed"
       /\ breaker'.generation = breaker.generation + 1

C22_DefaultShouldTripAndName ==
    (regPc = "ready") =>
        /\ DOMAIN breakers = DOMAIN cbSettings
        /\ \A key \in DOMAIN cbSettings :
            LET st == cbSettings[key]
                cfg == breakers[key]
            IN /\ st.ShouldTrip = "nil" =>
                      cfg.trips = {code \in StatusCodesIn : code >= 500}
               /\ st.ShouldTrip = "custom" =>
                      cfg.trips = {code \in StatusCodesIn : code = 429 \/ code >= 500}
               /\ st.ShouldTrip = "never" => cfg.trips = {}
               /\ cfg.name = IF st.Name = "" THEN key ELSE st.Name
        /\ (regCall.op = "ShouldTrip" /\ regCall.key \in DOMAIN cbSettings
                /\ cbSettings[regCall.key].ShouldTrip = "nil") =>
               (regCall.trip <=> regCall.code >= 500)
        /\ (regCall.op = "GetBreaker" /\ regCall.key \in DOMAIN cbSettings
                /\ cbSettings[regCall.key].Name = "") =>
               regCall.name = regCall.key

C22_Witness ==
    /\ regPc = "ready"
    /\ DOMAIN cbSettings = RegistryKeys
    /\ cbSettings["users-get"].ShouldTrip = "nil"
    /\ cbSettings["users-get"].Name = ""
    /\ cbSettings["orders-get"].ShouldTrip = "custom"
    /\ cbSettings["orders-get"].Name = "custom-name"
    /\ breakers["users-get"].name = "users-get"
    /\ breakers["orders-get"].name = "custom-name"
    /\ regCall.op = "ShouldTrip"
    /\ regCall.key = "users-get"
    /\ regCall.code = 500
    /\ regCall.trip

\* C23: GetBreaker, ShouldTrip and ExecuteWithBreaker with a key that is not
\* in the registry panic and return nothing, ExecuteWithBreaker without
\* having invoked fn; with a registered key they do not panic.
C23_UnregisteredKeyPanics ==
    (regCall.op # "none") =>
        IF regCall.key \notin DOMAIN breakers
        THEN /\ regCall.panicked
             /\ ~regCall.ran
             /\ regCall.resp.nil
             /\ regCall.err = NoError
             /\ regCall.name = ""
             /\ ~regCall.trip
        ELSE ~regCall.panicked

C23_Witness ==
    /\ DOMAIN breakers = {"users-get"}
    /\ regCall.op = "ExecuteWithBreaker"
    /\ regCall.key = "non-existent"
    /\ regCall.panicked
    /\ ~regCall.ran
    /\ regRuns = 1

(***************************************************************************)
(* Retries inside a breaker (GuardedSpec).                                 *)
(***************************************************************************)
\* The guarded request has returned after MaxRetries + 1 attempts that all
\* failed (a transport error or a retriable status each).
AllAttemptsFailed ==
    /\ cbResult["a"].pc = "returned"
    /\ req.Method \in RetriedMethods
    /\ Len(sent) = t.maxRetries + 1
    /\ cbResult["a"].err # NoError

\* C24: every transport attempt of a guarded request counts as a failure of
\* the breaker: with MaxRetries 3, a request whose attempts all fail adds 4
\* failures.
C24_EachRetryCounted ==
    (AllAttemptsFailed /\ t.maxRetries = 3) => breaker.counts.TotalFailures = 4

\* What the breaker counts instead: one failure for the whole request.
C24_OneFailurePerRequest ==
    AllAttemptsFailed =>
        /\ breaker.counts.TotalFailures = 1
        /\ breaker.counts.ConsecutiveFailures = 1
        /\ breaker.counts.Requests = 1

(***************************************************************************)
(* parseRetryAfter (ParseSpec).                                            *)
(***************************************************************************)
\* The seconds a header text stands for, for the texts that are integers.
SecondsOf(chars) ==
    CASE chars = <<"1">> -> 1
      [] chars = <<"3", "0">> -> 30
      [] chars = <<"3", "0", "0">> -> 300
      [] chars = <<"3", "0", "1">> -> 301
      [] chars = <<"0">> -> 0
      [] chars = <<"-", "1", "0">> -> 0 - 10
      [] chars = <<"+", "5">> -> 5
      [] OTHER -> 0

\* C25 as stated: the result is a function of the header value alone, so two
\* calls with the same header value return the same duration.
C25_PureFunctionOfHeader ==
    \A i, j \in DOMAIN parseCalls :
        parseCalls[i].header = parseCalls[j].header => parseCalls[i].out = parseCalls[j].out

\* C25, amended: the result is a function of the header value and, for a
\* date, of the moment of the call.  Integer seconds in (0, 300] give that
\* many seconds, other integers zero; an empty or unparseable value gives
\* zero; a date gives the time left until it when that is in (0, 5 minutes]
\* and zero otherwise; the result is never negative or above 5 minutes.
C25_ParseRetryAfterValues ==
    /\ \A i, j \in DOMAIN parseCalls :
           (parseCalls[i].header = parseCalls[j].header
                /\ parseCalls[i].now = parseCalls[j].now) =>
               parseCalls[i].out = parseCalls[j].out
    /\ \A i \in DOMAIN parseCalls :
        LET call == parseCalls[i]
            left == call.header.delta - call.now
            secs == SecondsOf(call.header.chars)
        IN /\ call.out >= 0
           /\ call.out <= 5 * 60 * 1000
           /\ call.header.form = "text" =>
                  call.out = IF secs > 0 /\ secs <= 300 THEN secs * 1000 ELSE 0
           /\ call.header.form = "date" =>
                  call.out = IF left > 0 /\ left <= 5 * 60 * 1000 THEN left ELSE 0

C25_Witness ==
    /\ Len(parseCalls) = 2
    /\ parseCalls[1].header = DateHeader(30 * Second)
    /\ parseCalls[1].now = 0
    /\ parseCalls[1].out = 30 * Second
    /\ parseCalls[2].header = TextHeader(<<"3", "0", "0">>)
    /\ parseCalls[2].now = ParseTick
    /\ parseCalls[2].out = 300 * Second

(***************************************************************************)
(* The defaults of the retry settings (Spec).                              *)
(***************************************************************************)
\* C26: each setting left at its zero value gets its default whatever the
\* others are (3, 500ms, 60s, 1.5, {429, 502, 503, 504}), each setting given
\* a non-zero value is kept, the transport of an accepted client carries
\* these values, and with the default codes a 500 response is returned to
\* the caller as it is, without a retry.
C26_DefaultsIndependent ==
    pc # "new" =>
        LET e == applyDefaults(settings) IN
        /\ e.MaxRetries = IF settings.MaxRetries = 0 THEN 3 ELSE settings.MaxRetries
        /\ e.InitialInterval = IF settings.InitialInterval = 0 THEN 500
                               ELSE settings.InitialInterval
        /\ e.MaxInterval = IF settings.MaxInterval = 0 THEN 60 * 1000
                           ELSE settings.MaxInterval
        /\ IF settings.Multiplier.num = 0
           THEN 2 * e.Multiplier.num = 3 * e.Multiplier.den
           ELSE e.Multiplier = settings.Multiplier
        /\ e.RetriableStatusCodes.codes =
               IF settings.RetriableStatusCodes.isNil THEN {429, 502, 503, 504}
               ELSE settings.RetriableStatusCodes.codes
        /\ pc # "rejected" =>
               /\ t.maxRetries = e.MaxRetries
               /\ t.initialInterval = e.InitialInterval
               /\ t.maxInterval = e.MaxInterval
               /\ t.multiplier = e.Multiplier
               /\ t.retriableStatusCodes = e.RetriableStatusCodes.codes
        /\ (/\ settings.RetriableStatusCodes.isNil
            /\ lastOutcome.err = NoError
            /\ IsResponse(lastOutcome)
            /\ lastOutcome.resp.status = 500) =>
               /\ pc = "done"
               /\ result = lastOutcome
               /\ lastDrain = "none"
               /\ req.Method \in RetriedMethods => Len(sent) = numTries

C26_Witness ==
    /\ pc = "done"
    /\ settings = [MaxRetries |-> 0, InitialInterval |-> 100, MaxInterval |-> 0,
                   Multiplier |-> ZeroMultiplier, RetriableStatusCodes |-> NilCodes]
    /\ t.maxRetries = 3
    /\ t.initialInterval = 100
    /\ t.maxInterval = 60 * 1000
    /\ req.Method = "GET"
    /\ Len(sent) = 1
    /\ result = Outcome(Resp(500, NoHeader), NoError)

(***************************************************************************)
(* MaxRetries 0 (Spec).                                                    *)
(***************************************************************************)
\* C27 as stated: with MaxRetries 0 a call with an idempotent method that
\* reached the transport made exactly one attempt, whatever the outcome.
C27_ZeroRetriesOneAttempt ==
    (/\ pc = "done"
     /\ settings.MaxRetries = 0
     /\ req.Method \in RetriedMethods
     /\ Len(sent) >= 1) => Len(sent) = 1

\* C27, amended: MaxRetries 0 stands for the default of 3 retries.  The
\* settings are accepted exactly when they are with MaxRetries 3, the
\* transport then retries 3 times: a call with an idempotent method makes at
\* most 4 attempts, 4 when its last attempt failed and its context was not
\* cancelled, and it ends after one attempt only on a response it returns or
\* on cancellation.
C27_ZeroRetriesMeansDefault ==
    (pc # "new" /\ settings.MaxRetries = 0) =>
        /\ clientErr = NewClientError(clientTimeout, TRUE, [settings EXCEPT !.MaxRetries = 3])
        /\ pc # "rejected" => t.maxRetries = 3
        /\ (Called /\ req.Method \in RetriedMethods) =>
               /\ Len(sent) <= 4
               /\ (pc = "done" /\ result.err # NoError /\ Len(sent) >= 1 /\ ~cancelled) =>
                      Len(sent) = 4
               /\ (pc = "done" /\ Len(sent) = 1) => (result.err = NoError \/ cancelled)

C27_Witness ==
    /\ pc = "done"
    /\ settings.MaxRetries = 0
    /\ clientErr = NoError
    /\ req.Method = "GET"
    /\ Len(sent) = 4
    /\ lastOutcome = Outcome(NilResp, TransportError)
    /\ result.err = TransportError
    /\ ~cancelled

(***************************************************************************)
(* Exhaustion on retriable statuses (Spec).                                *)
(***************************************************************************)
\* C28: when the attempts of a call with an idempotent method are used up
\* and the last one (as the ones before it, or after any others) returned a
\* retriable status, RoundTrip returns a nil response and a non-nil error;
\* a response RoundTrip does return never has a retriable status.
C28_ExhaustedOnStatusErrors ==
    (pc = "done" /\ req.Method \in RetriedMethods) =>
        /\ (Len(sent) = t.maxRetries + 1 /\ RetriableStatus(lastOutcome)) =>
               (result.resp = NilResp /\ result.err # NoError)
        /\ IsResponse(result) =>
               (result.err = NoError /\ result.resp.status \notin t.retriableStatusCodes)

\* Two attempts allowed, both answered with a retriable status.
C28_Witness ==
    /\ pc = "done"
    /\ req.Method = "PUT"
    /\ t.maxRetries = 1
    /\ Len(sent) = 2
    /\ ~priorErrs
    /\ lastOutcome = Outcome(Resp(503, NoHeader), NoError)
    /\ lastDrain = "ok"
    /\ result = Outcome(NilResp, "retriable status code")

(***************************************************************************)
(* The bodies of the responses the retry stage discards (Spec).            *)
(***************************************************************************)
\* C29: when the stage waits or has ended after an attempt that returned a
\* retriable status, the body of that response is not left open.
C29_BodyClosedBeforeRetry ==
    (/\ pc \in {"wait", "done"}
     /\ req.Method \in RetriedMethods
     /\ RetriableStatus(lastOutcome)) => ~bodyLeftOpen(lastOutcome, lastDrain)

\* What holds instead: the body of such a response has been read to its end
\* and closed unless reading it failed, and then op has not closed it.
C29_ClosedUnlessCopyFails ==
    (/\ pc \in {"wait", "done"}
     /\ req.Method \in RetriedMethods
     /\ RetriableStatus(lastOutcome)) =>
        /\ lastDrain \in {"ok", "closeErr", "copyErr"}
        /\ (lastDrain = "copyErr" /\ pc = "done" /\ ~cancelled) =>
               result = Outcome(NilResp, "copy failed")

(***************************************************************************)
(* The backoff waits against the validated worst case (Spec).              *)
(***************************************************************************)
\* min(InitialInterval * Multiplier^i, MaxInterval), the step validation
\* counts for retry i.
CappedStep(s, i) ==
    IF IntervalPower(s, i) < s.MaxInterval THEN IntervalPower(s, i) ELSE s.MaxInterval

\* C30: in a call through an accepted client, the backoff wait before retry
\* i that does not come from a Retry-After header is at most
\* min(InitialInterval * Multiplier^i, MaxInterval).
C30_WaitWithinCappedStep ==
    (pc = "wait" /\ req.Method \in RetriedMethods /\ ~RetryAfterApplied) =>
        next <= CappedStep(Effective, waits - 1)

\* What holds instead: the interval the wait is drawn from is at most that
\* step, and the wait itself lies anywhere between half and one and a half
\* times the interval.
C30_WaitWithinJitter ==
    (pc = "wait" /\ req.Method \in RetriedMethods /\ ~RetryAfterApplied) =>
        /\ step <= CappedStep(Effective, waits - 1)
        /\ InBackoffRange(next, step)

(***************************************************************************)
(* Headers under retries (ChainSpec).                                      *)
(***************************************************************************)
\* What the header stage leaves in header name k of a request that came
\* without it: the static value when the settings hold a non-empty one, else
\* the context value when the settings name a key that holds one.
Injected(k) ==
    IF k \in DOMAIN headerSettings.StaticHeaders
          /\ StaticHeaderValue(headerSettings.StaticHeaders, k) # ""
    THEN StaticHeaderValue(headerSettings.StaticHeaders, k)
    ELSE IF k \in DOMAIN headerSettings.ContextHeaders
               /\ ContextValue(hdrReq.ctx, headerSettings.ContextHeaders[k]).kind # "nil"
         THEN Sprint(ContextValue(hdrReq.ctx, headerSettings.ContextHeaders[k]))
         ELSE ""

\* C31: with headers and retries both configured the retry stage is the
\* outermost stage; the header stage runs once for every transport attempt,
\* and every request that reaches the base transport carries the caller's
\* headers and, where the caller gave none, the configured static and
\* context-derived values.
C31_EveryAttemptCarriesHeaders ==
    (HasStage(chain, "headers") /\ HasStage(chain, "retry")) =>
        /\ chain[1] = "retry"
        /\ StageAt(chain, "headers") > StageAt(chain, "retry")
        /\ hdrClone.calls = Len(received)
        /\ Len(sent) <= Len(received)
        /\ Len(received) <= Len(sent) + 1
        /\ \A i \in DOMAIN received :
           \A k \in {"X-API-Key", "X-Request-ID"} :
               HeaderGet(received[i], k) =
                   IF HeaderGet(hdrReq.Header, k) # "" THEN HeaderGet(hdrReq.Header, k)
                   ELSE Injected(k)

C31_Witness ==
    /\ pc = "done"
    /\ chain = <<"retry", "headers", "pool">>
    /\ req.Method = "GET"
    /\ Len(sent) = 2
    /\ Len(received) = 2
    /\ hdrClone.calls = 2
    /\ hdrReq.Header = EmptyHeader
    /\ HeaderGet(received[1], "X-API-Key") = "secret"
    /\ HeaderGet(received[2], "X-API-Key") = "secret"
    /\ HeaderGet(received[2], "X-Request-ID") = "req-1"
    /\ result.resp.status = 200

(***************************************************************************)
(* The states of a breaker (BreakerSpec).                                  *)
(***************************************************************************)
\* C32: a breaker starts closed, and every change of its state is one of
\* closed -> open, open -> half-open, half-open -> open, half-open -> closed.
C32_StateTransitions ==
    [][/\ (cbPc = "new" /\ cbPc' = "ready") => breaker'.state = "closed"
       /\ (cbPc = "ready" /\ breaker'.state # breaker.state) =>
              <<breaker.state, breaker'.state>> \in
                  {<<"closed", "open">>, <<"open", "half-open">>,
                   <<"half-open", "open">>, <<"half-open", "closed">>}]_vars

\* Six changes of state without a change of generation in between, ending
\* open: the breaker has taken each of the four transitions and left each of
\* the three states.
C32_Witness ==
    /\ cbPc = "ready"
    /\ breaker.interval = 0
    /\ breaker.state = "open"
    /\ breaker.generation = 7

(***************************************************************************)
(* Open and half-open (BreakerSpec).                                       *)
(***************************************************************************)
\* Caller c's call, admitted in the breaker's present generation, returns
\* in this step with the given report.
TrialReturns(c, report) ==
    /\ Returns(c)
    /\ cbResult[c].generation = breaker.generation
    /\ cbResult'[c].reported = report

\* C33: an open breaker admits no call and leaves the open state only when
\* its timeout goes by, to half-open; a half-open breaker is reopened by any
\* failed trial call, stays half-open on a successful one that does not
\* complete the run, and closes only on the successful trial call that
\* completes a run of MaxRequests consecutive successes.
C33_OpenThenTrial ==
    [][cbPc = "ready" =>
        /\ breaker.state = "open" =>
               /\ cbRuns' = cbRuns
               /\ breaker'.state # "open" =>
                      (breaker'.state = "half-open" /\ cbResult' = cbResult)
        /\ breaker.state = "half-open" =>
               /\ \A c \in Callers :
                      /\ TrialReturns(c, "failure") => breaker'.state = "open"
                      /\ TrialReturns(c, "success") =>
                             breaker'.state =
                                 IF breaker.counts.ConsecutiveSuccesses + 1 >= breaker.maxRequests
                                 THEN "closed" ELSE "half-open"
               /\ breaker'.state = "closed" =>
                      /\ \E c \in Callers : TrialReturns(c, "success")
                      /\ breaker.counts.TotalFailures = 0
                      /\ breaker.counts.ConsecutiveSuccesses + 1 = breaker.maxRequests]_vars

\* A breaker with MaxRequests 2 that opened, became half-open and was closed
\* by two successful trial calls.
C33_Witness ==
    /\ cbPc = "ready"
    /\ breaker.interval = 0
    /\ breaker.maxRequests = 2
    /\ breaker.state = "closed"
    /\ breaker.generation = 4
    /\ \A c \in Callers : cbResult[c].pc = "returned" /\ cbResult[c].reported = "success"
                              /\ cbResult[c].counted

(***************************************************************************)
(* The trial calls of a half-open breaker (BreakerSpec).                   *)
(***************************************************************************)
\* Caller c calls ExecuteWithBreaker in this step.
Calls(c) == cbResult[c].pc # "running" /\ cbResult'[c] # cbResult[c]

\* The calls admitted in the breaker's present generation that are running.
Outstanding == {c \in Callers : cbResult[c].pc = "running"
                                   /\ cbResult[c].generation = breaker.generation}

\* C34: a half-open breaker has admitted at most MaxRequests calls (1 when
\* MaxRequests is 0); a call made once that many were admitted is rejected
\* with an error, without fn being invoked and without a change of the
\* breaker, and a call made before is admitted.
C34_HalfOpenLimit ==
    [][(cbPc = "ready" /\ breaker.state = "half-open") =>
        /\ breaker.counts.Requests <= breaker.maxRequests
        /\ Cardinality(Outstanding) <= breaker.maxRequests
        /\ \A c \in Callers : Calls(c) =>
               IF breaker.counts.Requests >= breaker.maxRequests
               THEN /\ cbResult'[c].pc = "returned"
                    /\ cbResult'[c].err = ErrTooManyRequests
                    /\ ~cbResult'[c].ran
                    /\ cbRuns' = cbRuns
                    /\ breaker' = breaker
               ELSE /\ cbResult'[c].pc = "running"
                    /\ cbRuns' = cbRuns + 1
                    /\ breaker'.counts.Requests = breaker.counts.Requests + 1]_vars

\* One trial call is running and the other caller was turned away.
C34_Witness ==
    /\ breaker.state = "half-open"
    /\ breaker.maxRequests = 1
    /\ Outstanding = {"a"}
    /\ cbResult["b"].pc = "returned"
    /\ cbResult["b"].err = ErrTooManyRequests
    /\ ~cbResult["b"].ran

(***************************************************************************)
(* Concurrent calls on one key (BreakerSpec).                              *)
(***************************************************************************)
\* C35 as stated: every admitted call that has returned was counted, as a
\* success or as a failure.
C35_EveryCallCounted ==
    \A c \in Callers : (cbResult[c].pc = "returned" /\ cbResult[c].ran) => cbResult[c].counted

\* C35, amended: a call is counted once, as what it reported, when the
\* breaker is still in the generation that admitted it, and is dropped
\* without any change of the breaker when the generation has changed
\* meanwhile; within a generation every admitted call is either running or
\* counted once; and a closed breaker opens on the counted failure that
\* makes its counts satisfy ReadyToTrip, so a closed breaker's counts never
\* satisfy it.
C35_CountedOncePerGeneration ==
    [][cbPc = "ready" =>
        /\ breaker.counts.Requests =
               breaker.counts.TotalSuccesses + breaker.counts.TotalFailures
                   + Cardinality(Outstanding)
        /\ breaker.state = "closed" => ~readyToTrip(breaker, breaker.counts)
        /\ \A c \in Callers : Returns(c) =>
               /\ cbResult'[c].counted = (cbResult[c].generation = breaker.generation)
               /\ ~cbResult'[c].counted => breaker' = breaker
               /\ (cbResult'[c].counted /\ breaker'.state = breaker.state) =>
                      /\ breaker'.counts.Requests = breaker.counts.Requests
                      /\ breaker'.counts.TotalSuccesses = breaker.counts.TotalSuccesses
                             + (IF cbResult'[c].reported = "success" THEN 1 ELSE 0)
                      /\ breaker'.counts.TotalFailures = breaker.counts.TotalFailures
                             + (IF cbResult'[c].reported = "failure" THEN 1 ELSE 0)
               /\ (/\ cbResult'[c].counted
                   /\ breaker.state = "closed"
                   /\ cbResult'[c].reported = "failure"
                   /\ readyToTrip(breaker, onFailureCounts(breaker.counts))) =>
                      breaker'.state = "open"]_vars

\* Two calls admitted by a closed breaker with ReadyToTrip at two
\* consecutive failures: one has failed and is counted, the other is running.
C35_Witness ==
    /\ breaker.state = "closed"
    /\ breaker.tripAfter = 2
    /\ breaker.generation = 1
    /\ Outstanding = {"b"}
    /\ cbResult["a"].pc = "returned"
    /\ cbResult["a"].reported = "failure"
    /\ cbResult["a"].counted
    /\ breaker.counts.Requests = 2
    /\ breaker.counts.TotalFailures = 1

(***************************************************************************)
(* Breakers of other keys and of other clients.                            *)
(***************************************************************************)
\* The call a step makes goes through key j of the named client.
CallThrough(on, j) ==
    /\ regCall'.op = "ExecuteWithBreaker"
    /\ regCall'.on = on
    /\ regCall'.key = j

\* C36: a call through one key leaves the breaker of every other key of
\* the client as it was, state and counts, and a call through one client
\* leaves every breaker of the other client as it was: a step changes the
\* breaker of key j of a client only when it is an ExecuteWithBreaker call
\* on that client with key j.
C36_OtherBreakersUntouched ==
    [][regPc = "ready" =>
          /\ DOMAIN breakers' = DOMAIN breakers
          /\ DOMAIN peer' = DOMAIN peer
          /\ \A j \in DOMAIN breakers :
                CallThrough("client", j) \/ breakers'[j] = breakers[j]
          /\ \A j \in DOMAIN peer :
                CallThrough("peer", j) \/ peer'[j] = peer[j]]_vars

C36_Witness ==
    /\ regPc = "ready"
    /\ DOMAIN breakers = RegistryKeys
    /\ "users-get" \in DOMAIN peer
    /\ regCall.op = "ExecuteWithBreaker"
    /\ regCall.on = "client"
    /\ regCall.key = "users-get"
    /\ regCall.ran
    /\ breakers["users-get"].cb.state = "open"
    /\ breakers["orders-get"].cb.state = "closed"
    /\ breakers["orders-get"].cb.counts = NoCounts
    /\ peer["users-get"].cb.state = "closed"
    /\ peer["users-get"].cb.counts.TotalSuccesses = 1

\* The keys of the settings in a slice given to WithCircuitBreakers.
KeysOf(list) == {list[i].Key : i \in DOMAIN list}

\* C37: the keys NewClient registers are the keys of the settings its
\* options supplied, and no GetBreaker, ShouldTrip or ExecuteWithBreaker
\* call afterwards, whatever its key and however it ends, adds a key to the
\* registry or removes one.
C37_RegisteredKeysFixed ==
    [][/\ (regPc = "new" /\ regPc' = "ready") =>
              \E list \in BreakerOptions :
                  /\ cbSettings' = WithCircuitBreakers(list, <<>>)
                  /\ DOMAIN breakers' = KeysOf(list)
       /\ regPc = "ready" =>
              /\ regCall'.op \in {"GetBreaker", "ShouldTrip", "ExecuteWithBreaker"}
              /\ DOMAIN breakers' = DOMAIN breakers
              /\ cbSettings' = cbSettings]_vars

C37_Witness ==
    /\ regPc = "ready"
    /\ DOMAIN breakers = {"orders-get"}
    /\ breakers["orders-get"].cb.counts.Requests = 1
    /\ regCall.op = "ExecuteWithBreaker"
    /\ regCall.key = "users-get"
    /\ regCall.panicked

(***************************************************************************)
(* The breaker transport of the circuitbreaker package.                    *)
(***************************************************************************)
\* The step takes a failure in: a half-open breaker, or a closed one whose
\* counts then satisfy ReadyToTrip, opens; otherwise the failure is added
\* to the counts.
FailureTaken ==
    IF breaker.state = "half-open"
           \/ readyToTrip(breaker, onFailureCounts(breaker.counts))
    THEN breaker'.state = "open"
    ELSE /\ breaker'.state = breaker.state
         /\ breaker'.counts.TotalFailures = breaker.counts.TotalFailures + 1
         /\ breaker'.counts.ConsecutiveFailures = breaker.counts.ConsecutiveFailures + 1
         /\ breaker'.counts.TotalSuccesses = breaker.counts.TotalSuccesses

\* C38: RoundTrip of the breaker transport returns a response whose status
\* satisfies ShouldTrip with a nil error and the breaker takes a failure
\* in; it returns the wrapped transport's error as it is and the breaker
\* takes a failure in; a failure that satisfies ReadyToTrip opens the
\* breaker, and a call on an open breaker returns ErrOpenState without the
\* wrapped transport being called; with a ShouldTrip that is always false
\* no response, whatever its status, opens the breaker.
C38_TransportCountsAndSuppresses ==
    [][/\ (cbResult["a"].pc = "running" /\ cbResult'["a"].pc = "returned") =>
            LET call == cbResult'["a"]
                out == call.fn
            IN /\ (out.err = NoError /\ out.resp.status \in shouldTripSet) =>
                      /\ call.resp = out.resp
                      /\ call.err = NoError
                      /\ FailureTaken
               /\ (out.err # NoError) =>
                      /\ call.err = out.err
                      /\ call.resp = out.resp
                      /\ FailureTaken
               /\ (out.err = NoError /\ shouldTripSet = {}) =>
                      /\ call.resp = out.resp
                      /\ call.err = NoError
                      /\ breaker'.state # "open"
       /\ (cbPc = "ready" /\ cbResult["a"].pc # "running" /\ cbResult' # cbResult
              /\ breaker.state = "open") =>
            /\ cbResult'["a"].pc = "returned"
            /\ cbResult'["a"].err = ErrOpenState
            /\ cbResult'["a"].resp.nil
            /\ ~cbResult'["a"].ran
            /\ cbRuns' = cbRuns
            /\ breaker' = breaker]_vars

\* A 500 was returned with a nil error, it tripped the breaker, and the
\* call after it was refused with the wrapped transport not called again.
C38_Witness ==
    /\ cbPc = "ready"
    /\ errBadResponse # ErrBadResponse
    /\ 500 \in shouldTripSet
    /\ breaker.state = "open"
    /\ breaker.tripAfter = 3
    /\ cbRuns = 3
    /\ cbResult["a"].pc = "returned"
    /\ cbResult["a"].err = ErrOpenState
    /\ ~cbResult["a"].ran

(***************************************************************************)
(* Termination of retryTransport.RoundTrip.                                *)
(***************************************************************************)
\* How a call that went through backoff.Retry ended: op returned a response
\* to hand on, the tries were used up, or the request's context was done.
EndedBy ==
    \/ result.err = NoError /\ ~result.resp.nil
    \/ numTries >= MaxTries(t)
    \/ cancelled

\* C39: a RoundTrip call that has entered backoff.Retry, with every
\* transport attempt returning, eventually returns; and when it has
\* returned, it is with the response of a non-retriable outcome, with its
\* MaxRetries+1 attempts used up, or with the request's context cancelled,
\* never having made more than MaxRetries+1 attempts.
C39_RoundTripReturns ==
    /\ (pc \in {"attempt", "wait"}) ~> (pc = "done")
    /\ []((pc = "done" /\ numTries > 0) =>
            (EndedBy /\ MaxTries(t) > 0 /\ Len(sent) <= MaxTries(t)))

\* Each of the three ways of ending has happened: a 200 after a retried
\* failure.
C39_Witness ==
    /\ pc = "done"
    /\ numTries = 2
    /\ MaxTries(t) = 4
    /\ ~cancelled
    /\ waits = 1
    /\ result.err = NoError
    /\ result.resp.status = 200

(***************************************************************************)
(* A header name configured as a static and as a context header.           *)
(***************************************************************************)
\* C40: when a name is configured as a context header and as a static
\* header with a non-empty value, and the incoming request does not have
\* the header, the request passed on carries under that name the single
\* value of a static header configured for it, and not the display string
\* of the context value.
C40_StaticBeatsContext ==
    (hdrPc = "done") =>
        \A header \in DOMAIN headerSettings.ContextHeaders :
            LET n == CanonicalMIMEHeaderKey(header)
                value == ContextValue(hdrReq.ctx, headerSettings.ContextHeaders[header])
                static == headerSettings.StaticHeaders
            IN (StaticGiven(n) /\ hdrReq.Header[n] = <<>>) =>
                   /\ \E k \in DOMAIN static :
                         /\ CanonicalMIMEHeaderKey(k) = n
                         /\ static[k] # ""
                         /\ hdrClone.Header[n] = <<StaticHeaderValue(static, k)>>
                   /\ hdrClone.Header[n] # <<Sprint(value)>>

C40_Witness ==
    /\ hdrPc = "done"
    /\ DOMAIN headerSettings.StaticHeaders = {"X-API-Key"}
    /\ headerSettings.StaticHeaders["X-API-Key"] # ""
    /\ DOMAIN headerSettings.ContextHeaders = {"X-API-Key"}
    /\ hdrReq.ctx["apiKey"] = StringValue("req-1")
    /\ hdrReq.Header["X-Api-Key"] = <<>>
    /\ hdrClone.Header["X-Api-Key"] = <<"secret">>
    /\ hdrClone.calls = 1

====
